---- MODULE Spec2Model ----
(***************************************************************************)
(* A model of the geecache repository: the singleflight coalescer          *)
(* (cache/singleflight), the LRU store (lru), and the cache group          *)
(* (geecache.Group) that ties the store, the coalescer, the peer picker    *)
(* and the getter callback together.                                       *)
(*                                                                         *)
(* The specifications share the variables:                                 *)
(*   SpecSF    - goroutines calling singleflight.Group.Do with a function  *)
(*               that increments a shared counter;                         *)
(*   SpecLRU   - a single lru.Cache driven by Add / Get / RemoveOldest;    *)
(*   SpecGroup - goroutines calling geecache.Group.Get;                    *)
(*   SpecRegistry - goroutines calling NewGroup, GetGroup and              *)
(*               Group.RegisterPeers on the process-wide registry;         *)
(*   SpecRing  - a consistenthash.Map driven by Add and Get;               *)
(*   SpecPool  - an HTTPPool driven by Set and PickPeer;                   *)
(*   SpecServe - goroutines of the HTTP server running HTTPPool.ServeHTTP  *)
(*               against the registry and the group;                       *)
(*   SpecLocks - the exported operations cut at their lock calls;          *)
(*   SpecCluster - several nodes whose groups fetch from each other.       *)
(***************************************************************************)
EXTENDS Integers, Sequences, FiniteSets, TLC

VARIABLES
    \* ---- singleflight.Group and the goroutines inside Do ----
    m,        \* g.m: key -> id of the registered call (0: no entry)
    calls,    \* the call objects ever allocated, by id (a heap of *call)
    pc,       \* pc[p]: where goroutine p stands
    key,      \* key[p]: the key argument of p's current call
    cref,     \* cref[p]: the *call p holds (0: none)
    ret,      \* ret[p]: the (val, err) the last Do of p returned
    ndo,      \* how many Do calls have begun, over all goroutines
    found,    \* found[p]: the table had an entry for key[p] when p looked it up
    seen,     \* seen[p]: what p's Do found when it began and when it joined
    counter,  \* the shared counter the coalesced function increments
    overlap,  \* at some moment every goroutine was inside Do at once
    \* ---- lru.Cache ----
    maxBytes, \* c.maxBytes
    nbytes,   \* c.nbytes
    ll,       \* c.ll: the entries, front (most recent) first
    cache,    \* c.cache: the keys of the index map
    evicted,  \* the OnEvicted calls of the last operation, in order
    hung,     \* the last Add never returned (its eviction loop spins)
    hist,     \* the last operations on the cache, oldest first
    order,    \* the resident keys, least recently touched first
    pre,      \* order as it stood when the last operation began to evict
    \* ---- geecache.Group, its cache and its peer picker ----
    gpeers,     \* g.peers: "nil" or the registered picker
    ring,       \* the node the picker's hash ring resolves each key to ("": none)
    cacheBytes, \* g.mainCache.cacheBytes
    lruNil,     \* g.mainCache.lru == nil
    panicked,   \* a panic ended the program
    gret,       \* gret[p]: the (value, err) the last Get of p returned
    nget,       \* how many Get calls have begun, over all goroutines
    loadCount,  \* loadCount[k]: how often the getter was invoked with k
    path,       \* path[p]: how the current Get of p went: reject, hit or load
    touched,    \* touched[p]: the current Get of p has changed the local store
    concur,     \* some Get began while another one was in progress
    everEvicted, \* the local store has evicted an entry
    \* ---- the registry of groups and the goroutines using it ----
    groups,     \* groups: name -> id of the registered *Group (0: no entry)
    gheap,      \* the Group objects ever allocated, by id
    rpc,        \* rpc[t]: where goroutine t stands in RegisterPeers
    rarg,       \* rarg[t]: the group and the picker of t's RegisterPeers call
    rgot,       \* rgot[t]: what the last GetGroup of t was asked and returned
    firstOf,    \* firstOf[n]: the group the first NewGroup(n, ...) returned
    nset,       \* nset[g]: how many RegisterPeers calls assigned g.peers
    regPanic,   \* the message of the panic that ended the program ("": none)
    nreg,       \* how many RegisterPeers calls have begun
    \* ---- consistenthash.Map ----
    mhash,      \* m.hash: the hash function, as far as it has been applied (-1: not yet)
    mreplicas,  \* m.replicas
    mkeys,      \* m.keys: the virtual-node hashes
    mhashMap,   \* m.hashMap: virtual-node hash -> real node ("": no entry)
    nadd,       \* how many Add calls were made
    added,      \* the nodes the last Add was called with
    before,     \* the real nodes on the ring before the last Add
    prevOwner,  \* prevOwner[k]: what Get(k) resolved to before the last Add
    lastGet,    \* lastGet[k]: what Get(k) returned since the last Add ("none": not called)
    \* ---- HTTPPool (its ring p.peers is the consistenthash.Map above) ----
    peersNil,    \* p.peers == nil
    httpGetters, \* p.httpGetters: peer -> baseURL of its httpGetter ("": no entry)
    lastSet,     \* the peer list of the most recent Set
    pick,        \* what the last PickPeer was asked and returned
    poolPanic,   \* the message of the panic that ended the program ("": none)
    npool,       \* how many Set calls were made
    \* ---- HTTPPool.ServeHTTP ----
    req,         \* req[p]: r.URL.Path of the request p serves
    resp,        \* resp[p]: what p's ServeHTTP wrote, or that it panicked
    serving,     \* serving[p]: p's ServeHTTP is inside group.Get
    \* ---- the four locks, and where each goroutine stands between them ----
    lockOwner,   \* lockOwner[l]: the goroutine holding l exclusively (0: none)
    lockReaders, \* the goroutines holding the registry lock for reading
    lkpc,        \* lkpc[t]: the next lock step, callback or return of t
    lkop,        \* lkop[t]: the exported operation t is in ("": none)
    lktab,       \* the coalescer's entry for the key (0: none), an index of lkwg
    lkwg,        \* lkwg[c]: wg.Done() was called on call c
    lkref,       \* lkref[t]: the call t registered or found
    lkcb,        \* lkcb[t]: the callbacks on t's stack, of "fn", "getter", "fetch"
    lkset,       \* p.peers != nil: a Set has completed
    lkpeers,     \* g.peers != nil
    lkpanic,     \* a panic ended the program
    lkops,       \* how many operations have begun
    \* ---- a cluster of nodes, each with its group, pool and HTTP server ----
    cown,        \* cown[k]: the node every pool's ring resolves key k to
    ccache,      \* ccache[n]: the mainCache of node n's group, key -> value
    ctab,        \* ctab[n][k]: node n's coalescer entry for k (0: none), an index of ccalls
    ccalls,      \* the coalescer calls ever registered: done, val, err
    creqs,       \* the Group.Get calls ever made, by clients and by ServeHTTP
    nroots       \* how many Get calls clients have made

sfvars == <<m, calls, pc, key, cref, ret, ndo, found, seen, counter, overlap>>

lruvars == <<maxBytes, nbytes, ll, cache, evicted, hung, hist, order, pre>>

gvars == <<gpeers, ring, cacheBytes, lruNil, panicked, gret, nget, loadCount,
           path, touched, concur, everEvicted>>

regvars == <<groups, gheap, rpc, rarg, rgot, firstOf, nset, regPanic, nreg>>

ringvars == <<mhash, mreplicas, mkeys, mhashMap, nadd, added, before, prevOwner, lastGet>>

poolvars == <<peersNil, httpGetters, lastSet, pick, poolPanic, npool>>

servevars == <<req, resp, serving>>

lockvars == <<lockOwner, lockReaders, lkpc, lkop, lktab, lkwg, lkref, lkcb,
              lkset, lkpeers, lkpanic, lkops>>

clustervars == <<cown, ccache, ctab, ccalls, creqs, nroots>>

vars == <<sfvars, lruvars, gvars, regvars, ringvars, poolvars, servevars, lockvars,
          clustervars>>

\* ------------------------------------------------------------------ bounds

NCallers == 2       \* goroutines calling Do
MaxDo == 3          \* Do calls begun, over all goroutines
MaxGet == 2         \* Get calls begun, over all goroutines

MaxCap == 9         \* the largest capacity an lru.Cache is created with

MaxGroups == 2      \* groups created by NewGroup
MaxReg == 2         \* RegisterPeers calls begun, over all goroutines

MaxAdd == 2         \* Add calls on one consistenthash.Map
MaxSet == 2         \* Set calls on one HTTPPool

Callers == 1..NCallers
SFKeys == {"a", "b"}
FnErrs == {"nil", "boom"}      \* what the caller-supplied fn may return as err

NoVal == <<>>                  \* a nil interface{}; <<v>> is one holding v
ErrNil == "nil"                \* a nil error
NoRet == [val |-> NoVal, err |-> ErrNil]

\* ------------------------------------------------- singleflight.Group.Do

\* c := new(call); c.wg.Add(1)
NewCall(k, p) ==
    [key |-> k, done |-> FALSE, val |-> NoVal, err |-> ErrNil,
     owner |-> p, removed |-> FALSE, runs |-> 0,
     nfetch |-> 0, ngetter |-> 0, peerok |-> FALSE]

\* c, ok := g.m[key]  (0 stands for !ok)
LookupNever(tbl, k) == 0
Lookup(tbl, k) == tbl[k]

\* delete(g.m, key)
TableDeleteNot(tbl, k) == tbl
TableDelete(tbl, k) == [tbl EXCEPT ![k] = 0]

\* c.wg.Wait() returns: the WaitGroup counter is zero
WaitNoBlock(c) == TRUE
WaitDone(c) == calls[c].done

\* What a beginning Do(k) finds: was a call for k resolved already, and how
\* many call objects exist (a call with a larger id is a fresh one).
NoSeen == [resolved |-> FALSE, removed |-> FALSE, ncalls |-> 0, stale |-> FALSE]
SeenAtBegin(k) ==
    [resolved |-> \E c \in 1..Len(calls) : calls[c].key = k /\ calls[c].done,
     removed |-> \E c \in 1..Len(calls) : calls[c].key = k /\ calls[c].removed,
     ncalls |-> Len(calls), stale |-> FALSE]

\* A goroutine calls g.Do(k, fn): it stands before g.mu.Lock().
DoBegin(p, k) ==
    /\ key' = [key EXCEPT ![p] = k]
    /\ cref' = [cref EXCEPT ![p] = 0]
    /\ ndo' = ndo + 1
    /\ ret' = [ret EXCEPT ![p] = NoRet]
    /\ found' = [found EXCEPT ![p] = FALSE]
    /\ pc' = [pc EXCEPT ![p] = "do_lock"]

\* Lines 22-40: under g.mu, join the registered call or register a new one.
DoLookup(p) ==
    /\ pc[p] = "do_lock"
    /\ found' = [found EXCEPT ![p] = (m[key[p]] # 0)]
    /\ LET c == Lookup(m, key[p]) IN
        IF c # 0
        THEN /\ cref' = [cref EXCEPT ![p] = c]
             /\ seen' = [seen EXCEPT ![p].stale = calls[c].removed]
             /\ pc' = [pc EXCEPT ![p] = "do_wait"]
             /\ UNCHANGED <<m, calls>>
        ELSE /\ calls' = Append(calls, NewCall(key[p], p))
             /\ m' = [m EXCEPT ![key[p]] = Len(calls) + 1]
             /\ cref' = [cref EXCEPT ![p] = Len(calls) + 1]
             /\ UNCHANGED seen
             /\ pc' = [pc EXCEPT ![p] = "do_fn"]

\* c.wg.Done()
WgDoneNot(c) == c
WgDone(c) == [c EXCEPT !.done = TRUE]

\* Lines 43-44: c.val, c.err = fn(); c.wg.Done()
DoStore(p, v, e) ==
    /\ calls' = [calls EXCEPT ![cref[p]] =
                    WgDone([@ EXCEPT !.val = v, !.err = e, !.runs = @ + 1])]
    /\ pc' = [pc EXCEPT ![p] = "do_delete"]

\* Lines 46-50: g.mu.Lock(); delete(g.m, key); g.mu.Unlock(); return c.val, c.err
DoDelete(p) ==
    /\ pc[p] = "do_delete"
    /\ m' = TableDelete(m, key[p])
    /\ calls' = [calls EXCEPT ![cref[p]].removed = TRUE]
    /\ ret' = [ret EXCEPT ![p] = [val |-> calls[cref[p]].val, err |-> calls[cref[p]].err]]
    /\ pc' = [pc EXCEPT ![p] = "ret"]

\* Lines 32-33: c.wg.Wait(); return c.val, c.err
DoWait(p) ==
    /\ pc[p] = "do_wait"
    /\ WaitDone(cref[p])
    /\ ret' = [ret EXCEPT ![p] = [val |-> calls[cref[p]].val, err |-> calls[cref[p]].err]]
    /\ pc' = [pc EXCEPT ![p] = "ret"]

\* -------------------------------------------------- geecache: the inputs

GKeys == {"", "Tom", "unknown"}     \* the keys Get is called with
DB == ("Tom" :> "630")              \* the data source behind the getter
GroupCaps == {0, 5}                 \* cacheBytes: no limit, too small for Tom's entry
Self == "A"                         \* HTTPPool.self
Nodes == {"A", "B"}
NoGet == [value |-> "", err |-> ErrNil]

\* ------------------------------------------------------------- lru.Cache

LKeys == {"k1", "k2", "k3"}
LVals == {"v1", "v23"}
Caps == (-1)..MaxCap           \* maxBytes is an int64: negative, 0 (no limit), positive

\* len(key) + value.Len()
EntrySize(e) == Len(e.key) + Len(e.value)

RECURSIVE SumSizes(_)
SumSizes(l) == IF l = <<>> THEN 0 ELSE EntrySize(Head(l)) + SumSizes(Tail(l))

KeysOf(l) == {l[i].key : i \in 1..Len(l)}

\* the list element the index map holds for key k
ElemOf(l, k) == CHOOSE i \in 1..Len(l) : l[i].key = k

\* c.ll.MoveToFront(ele)
MoveToFrontNot(l, i) == l
MoveToFront(l, i) == <<l[i]>> \o SubSeq(l, 1, i - 1) \o SubSeq(l, i + 1, Len(l))

\* c.nbytes += int64(value.Len()) - int64(kv.value.Len())
UpdateBytesNoOld(nb, old, new) == nb + Len(new)
UpdateBytes(nb, old, new) == nb + Len(new) - Len(old)

\* The cache as a value: what Add / Get / RemoveOldest read and write.
LruState == [ll |-> ll, cache |-> cache, nbytes |-> nbytes, evicted |-> <<>>, hung |-> FALSE]

\* New(maxBytes, onEvicted)
LruNew == [ll |-> <<>>, cache |-> {}, nbytes |-> 0, evicted |-> <<>>, hung |-> FALSE]

\* RemoveOldest: drop the back element, if there is one
RemoveOldestOp(st) ==
    IF st.ll = <<>> THEN st
    ELSE LET e == st.ll[Len(st.ll)] IN
         [st EXCEPT !.ll = SubSeq(st.ll, 1, Len(st.ll) - 1),
                    !.cache = st.cache \ {e.key},
                    !.nbytes = st.nbytes - EntrySize(e),
                    !.evicted = Append(st.evicted, e)]

\* for c.maxBytes != 0 && c.maxBytes < c.nbytes { c.RemoveOldest() }
\* With an empty list RemoveOldest changes nothing: the loop then spins forever.
EvictOnce(st, max) ==
    IF max # 0 /\ max < st.nbytes THEN RemoveOldestOp(st) ELSE st
RECURSIVE EvictLoop(_, _)
EvictLoop(st, max) ==
    IF max # 0 /\ max < st.nbytes
    THEN IF st.ll = <<>> THEN [st EXCEPT !.hung = TRUE]
         ELSE EvictLoop(RemoveOldestOp(st), max)
    ELSE st

\* c.ll.PushFront(&entry{key, value})
PushBack(l, e) == Append(l, e)
PushFront(l, e) == <<e>> \o l

\* Add, lines 89-105: update in place or insert at the front
AddEntry(st, k, v) ==
    IF k \in st.cache
    THEN LET i == ElemOf(st.ll, k)
             moved == MoveToFront(st.ll, i)
         IN [st EXCEPT !.ll = [moved EXCEPT ![1].value = v],
                       !.nbytes = UpdateBytes(st.nbytes, st.ll[i].value, v)]
    ELSE [st EXCEPT !.ll = PushFront(st.ll, [key |-> k, value |-> v]),
                    !.cache = st.cache \cup {k},
                    !.nbytes = st.nbytes + Len(k) + Len(v)]

AddOp(st, k, v, max) == EvictLoop(AddEntry(st, k, v), max)

\* Get: on a hit move the element to the front and return its value
GetOp(st, k) ==
    IF k \in st.cache
    THEN LET i == ElemOf(st.ll, k) IN
         [st |-> [st EXCEPT !.ll = MoveToFront(st.ll, i)], value |-> st.ll[i].value, ok |-> TRUE]
    ELSE [st |-> st, value |-> "", ok |-> FALSE]

\* Len
LruLen == Len(ll)

\* The touch order (not part of the program): k becomes the most recent.
Touch(o, k) == SelectSeq(o, LAMBDA x : x # k) \o <<k>>
Resident(o, keys) == SelectSeq(o, LAMBDA x : x \in keys)
Remember(h, op) == IF Len(h) < 2 THEN Append(h, op) ELSE <<h[2], op>>

SetLru(st) ==
    /\ ll' = st.ll
    /\ cache' = st.cache
    /\ nbytes' = st.nbytes
    /\ evicted' = st.evicted
    /\ hung' = st.hung

\* The part of the state a specification does not use stays as constructed.
LruIdle ==
    /\ maxBytes = 0
    /\ ll = <<>> /\ cache = {} /\ nbytes = 0
    /\ evicted = <<>> /\ hung = FALSE
    /\ hist = <<>> /\ order = <<>> /\ pre = <<>>

SFIdle ==
    /\ m = [k \in SFKeys |-> 0]
    /\ calls = <<>>
    /\ pc = [p \in Callers |-> "idle"]
    /\ key = [p \in Callers |-> "a"]
    /\ cref = [p \in Callers |-> 0]
    /\ ret = [p \in Callers |-> NoRet]
    /\ ndo = 0
    /\ found = [p \in Callers |-> FALSE]
    /\ seen = [p \in Callers |-> NoSeen]
    /\ counter = 0
    /\ overlap = FALSE

GroupIdle ==
    /\ gpeers = "nil" /\ ring = [k \in GKeys |-> ""]
    /\ cacheBytes = 0 /\ lruNil = TRUE /\ panicked = FALSE
    /\ gret = [p \in Callers |-> NoGet]
    /\ nget = 0
    /\ loadCount = [k \in GKeys |-> 0]
    /\ path = [p \in Callers |-> "none"]
    /\ touched = [p \in Callers |-> FALSE]
    /\ concur = FALSE /\ everEvicted = FALSE

\* The registry as the package initialises it: groups = make(map[string]*Group)
GNames == {"scores", "ages"}
Pickers == {"pool1", "pool2"}
NoGot == [name |-> "", g |-> 0, first |-> 0]

RegIdle ==
    /\ groups = [n \in GNames |-> 0]
    /\ gheap = <<>>
    /\ rpc = [t \in Callers |-> "idle"]
    /\ rarg = [t \in Callers |-> [g |-> 0, picker |-> "nil"]]
    /\ rgot = [t \in Callers |-> NoGot]
    /\ firstOf = [n \in GNames |-> 0]
    /\ nset = <<>>
    /\ regPanic = ""
    /\ nreg = 0

\* The consistent-hash inputs: real nodes, looked-up keys, and the values a
\* hash may take (a uint32 in the code).
RNodes == {"A", "B", "C"}
RKeys == {"x", "y"}
HashVals == 0..2
ReplicaChoices == {1, 2}
Batches == {<<"A">>, <<"B">>, <<"C">>, <<"A", "B">>}
Unhashed == -1

\* strconv.Itoa(i), for the replica indices in use
Itoa(i) == <<"0", "1", "2", "3">>[i + 1]

\* strconv.Itoa(i) + key: the name of a node's i-th virtual node
VirtualName(i, n) == Itoa(i) \o n

\* Everything the hash function is applied to.
Points == {VirtualName(i, n) : i \in 0..1, n \in RNodes} \cup RKeys

RingIdle ==
    /\ mhash = [x \in Points |-> 0]
    /\ mreplicas = 1
    /\ mkeys = <<>>
    /\ mhashMap = [h \in HashVals |-> ""]
    /\ nadd = 0
    /\ added = <<>>
    /\ before = {}
    /\ prevOwner = [k \in RKeys |-> ""]
    /\ lastGet = [k \in RKeys |-> "none"]

\* The HTTPPool as NewHTTPPool(self) makes it: no ring, no getters.
BasePath == "/_geecache/"
PeerLists == {<<>>, <<"A">>, <<"A", "B">>, <<"C", "B">>}
NoPick == [key |-> "", handle |-> "", ok |-> FALSE]

PoolIdle ==
    /\ peersNil = TRUE
    /\ httpGetters = [n \in RNodes |-> ""]
    /\ lastSet = <<>>
    /\ pick = NoPick
    /\ poolPanic = ""
    /\ npool = 0

\* No request is being served.
NoResp == [status |-> 0, body |-> "", panic |-> FALSE]

ServeIdle ==
    /\ req = [p \in Callers |-> <<>>]
    /\ resp = [p \in Callers |-> NoResp]
    /\ serving = [p \in Callers |-> FALSE]

\* The locks of the program: the registry's RWMutex mu, the store mutex c.mu
\* of the group's mainCache, the pool's p.mu and the coalescer's g.mu.
Locks == {"mu", "c.mu", "p.mu", "g.mu"}

LockIdle ==
    /\ lockOwner = [l \in Locks |-> 0]
    /\ lockReaders = {}
    /\ lkpc = [t \in Callers |-> "idle"]
    /\ lkop = [t \in Callers |-> ""]
    /\ lktab = 0
    /\ lkwg = <<>>
    /\ lkref = [t \in Callers |-> 0]
    /\ lkcb = [t \in Callers |-> {}]
    /\ lkset = FALSE
    /\ lkpeers = FALSE
    /\ lkpanic = FALSE
    /\ lkops = 0

\* The nodes of a cluster, and the keys its clients ask for, as the characters
\* they are spelled with.
CNodes == {"A", "B"}
KeyChars == {<<"k">>, <<"a", " ", "b">>, <<"a", "+", "b">>}

ClusterIdle ==
    /\ cown = <<>>
    /\ ccache = <<>>
    /\ ctab = <<>>
    /\ ccalls = <<>>
    /\ creqs = <<>>
    /\ nroots = 0

\* What the actions of one specification leave alone.
ClusterFrame ==
    UNCHANGED <<sfvars, lruvars, gvars, regvars, ringvars, poolvars, servevars, lockvars>>
LockFrame ==
    UNCHANGED <<sfvars, lruvars, gvars, regvars, ringvars, poolvars, servevars, clustervars>>
SFFrame == UNCHANGED <<lruvars, gvars, regvars, ringvars, poolvars, servevars, lockvars, clustervars>>
LRUFrame == UNCHANGED <<sfvars, gvars, regvars, ringvars, poolvars, servevars, lockvars, clustervars>>
RegFrame == UNCHANGED <<sfvars, lruvars, gvars, ringvars, poolvars, servevars, lockvars, clustervars>>
RingFrame == UNCHANGED <<sfvars, lruvars, gvars, regvars, poolvars, servevars, lockvars, clustervars>>
PoolFrame == UNCHANGED <<sfvars, lruvars, gvars, regvars, servevars, lockvars, clustervars>>

LRUInit ==
    /\ SFIdle
    /\ GroupIdle
    /\ RegIdle
    /\ RingIdle
    /\ PoolIdle
    /\ ServeIdle
    /\ LockIdle
    /\ ClusterIdle
    /\ maxBytes \in Caps
    /\ ll = LruNew.ll /\ cache = LruNew.cache /\ nbytes = LruNew.nbytes
    /\ evicted = <<>> /\ hung = FALSE
    /\ hist = <<>> /\ order = <<>> /\ pre = <<>>

LAdd(k, v) ==
    /\ LRUFrame
    /\ ~hung
    /\ SetLru(AddOp(LruState, k, v, maxBytes))
    /\ hist' = Remember(hist, [op |-> "Add", key |-> k, value |-> v, ok |-> TRUE])
    /\ pre' = Touch(order, k)
    /\ order' = Resident(pre', cache')
    /\ UNCHANGED maxBytes

LGet(k) ==
    /\ LRUFrame
    /\ ~hung
    /\ LET r == GetOp(LruState, k) IN
        /\ SetLru(r.st)
        /\ hist' = Remember(hist, [op |-> "Get", key |-> k, value |-> r.value, ok |-> r.ok])
        /\ pre' = IF r.ok THEN Touch(order, k) ELSE order
        /\ order' = pre'
    /\ UNCHANGED maxBytes

LRemoveOldest ==
    /\ LRUFrame
    /\ ~hung
    /\ SetLru(RemoveOldestOp(LruState))
    /\ hist' = Remember(hist, [op |-> "RemoveOldest", key |-> "", value |-> "", ok |-> TRUE])
    /\ pre' = order
    /\ order' = Resident(pre', cache')
    /\ UNCHANGED maxBytes

LRUNext ==
    \/ \E k \in LKeys, v \in LVals : LAdd(k, v)
    \/ \E k \in LKeys : LGet(k)
    \/ LRemoveOldest

\* --------------------------------------- SpecSF: Do with a counting function

SFInit ==
    /\ m = [k \in SFKeys |-> 0]
    /\ calls = <<>>
    /\ pc = [p \in Callers |-> "idle"]
    /\ key = [p \in Callers |-> "a"]
    /\ cref = [p \in Callers |-> 0]
    /\ ret = [p \in Callers |-> NoRet]
    /\ ndo = 0
    /\ found = [p \in Callers |-> FALSE]
    /\ seen = [p \in Callers |-> NoSeen]
    /\ counter = 0
    /\ overlap = FALSE
    /\ LruIdle
    /\ GroupIdle
    /\ RegIdle
    /\ RingIdle
    /\ PoolIdle
    /\ ServeIdle
    /\ LockIdle
    /\ ClusterIdle

SFCall(p, k) ==
    /\ SFFrame
    /\ pc[p] \in {"idle", "ret"}
    /\ ndo < MaxDo
    /\ DoBegin(p, k)
    /\ seen' = [seen EXCEPT ![p] = SeenAtBegin(k)]
    /\ overlap' = (overlap \/ \A q \in Callers \ {p} : pc[q] \notin {"idle", "ret"})
    /\ UNCHANGED <<m, calls, counter>>

SFLookup(p) ==
    /\ SFFrame
    /\ DoLookup(p)
    /\ UNCHANGED <<key, ret, ndo, counter, overlap>>

\* fn: increments the shared counter and returns (counter, e)
SFFn(p, e) ==
    /\ SFFrame
    /\ pc[p] = "do_fn"
    /\ counter' = counter + 1
    /\ DoStore(p, <<counter + 1>>, e)
    /\ UNCHANGED <<m, key, cref, ret, ndo, found, seen, overlap>>

SFDelete(p) ==
    /\ SFFrame
    /\ DoDelete(p)
    /\ UNCHANGED <<key, cref, ndo, found, seen, counter, overlap>>

SFWait(p) ==
    /\ SFFrame
    /\ DoWait(p)
    /\ UNCHANGED <<m, calls, key, cref, ndo, found, seen, counter, overlap>>

SFNext ==
    \/ \E p \in Callers, k \in SFKeys : SFCall(p, k)
    \/ \E p \in Callers : SFLookup(p)
    \/ \E p \in Callers, e \in FnErrs : SFFn(p, e)
    \/ \E p \in Callers : SFDelete(p)
    \/ \E p \in Callers : SFWait(p)

SpecSF == SFInit /\ [][SFNext]_vars

\* Fair scheduling: a goroutine that can take g.mu, return from fn, or return
\* from Wait eventually does. Nothing obliges a caller to call Do again.
SFFair ==
    \A p \in Callers :
        /\ WF_vars(SFLookup(p))
        /\ WF_vars(\E e \in FnErrs : SFFn(p, e))
        /\ WF_vars(SFDelete(p))
        /\ WF_vars(SFWait(p))

FairSpecSF == SpecSF /\ SFFair

SpecLRU == LRUInit /\ [][LRUNext]_vars

\* ------------------------------------------------------- geecache.Group

\* The getter of the tests: the value of a known key, or "<key> not exist".
GetterErr(k) == k \o " not exist"
Getter(k) ==
    IF k \in DOMAIN DB THEN [bytes |-> DB[k], err |-> ErrNil]
    ELSE [bytes |-> "", err |-> GetterErr(k)]

\* What the peer's HTTP server may answer to one GET.
Responses ==
    {[neterr |-> FALSE, status |-> 200, readerr |-> FALSE, body |-> "p630"],
     [neterr |-> TRUE, status |-> 0, readerr |-> FALSE, body |-> ""],
     [neterr |-> FALSE, status |-> 404, readerr |-> FALSE, body |-> "no such group"],
     [neterr |-> FALSE, status |-> 200, readerr |-> TRUE, body |-> "p6"]}

\* httpGetter.Get: the body of a 200 answer read to its end, else an error
HttpGet(r) ==
    IF r.neterr THEN [bytes |-> "", err |-> "http get failed"]
    ELSE IF r.status # 200 THEN [bytes |-> "", err |-> "server returned"]
    ELSE IF r.readerr THEN [bytes |-> "", err |-> "reading response body"]
    ELSE [bytes |-> r.body, err |-> ErrNil]

\* p.peers.Get(key): the node the ring resolves key to
RingGet(k) == ring[k]

\* HTTPPool.PickPeer: a remote node's getter, or (nil, false)
PickPeer(k) ==
    LET peer == RingGet(k) IN
    IF peer # "" /\ peer # Self THEN [peer |-> peer, ok |-> TRUE]
    ELSE [peer |-> "", ok |-> FALSE]

\* if key == "" { return ByteView{}, fmt.Errorf("key is required") }
KeyRequiredNever(k) == FALSE
KeyRequired(k) == k = ""

\* cache.get: a miss while no lru.Cache exists, else lru.Cache.Get
CacheGetMiss(k) == [st |-> LruState, value |-> "", ok |-> FALSE]
CacheGet(k) ==
    IF lruNil THEN [st |-> LruState, value |-> "", ok |-> FALSE]
    ELSE GetOp(LruState, k)

\* cache.add: create the lru.Cache when there is none, then lru.Cache.Add
CacheAdd(k, v) ==
    AddOp(IF lruNil THEN LruNew ELSE LruState, k, v, IF lruNil THEN cacheBytes ELSE maxBytes)

\* getFromPeer, lines 98-104: the fetched bytes are wrapped and returned; the
\* local store is not written
AfterPeerFetchCached(k, v) == CacheAdd(k, v)
AfterPeerFetch(k, v) == LruState

\* load, line 132: the peer's answer is returned only when err == nil
PeerServedAlways(err) == TRUE
PeerServed(err) == err = ErrNil

\* getLocally, line 75: the getter's error is returned, nothing is stored
GetterFailedNever(err) == FALSE
GetterFailed(err) == err # ErrNil

Busy(p) == pc[p] \notin {"idle", "ret"}

GroupInit ==
    /\ m = [k \in GKeys |-> 0]
    /\ calls = <<>>
    /\ pc = [p \in Callers |-> "idle"]
    /\ key = [p \in Callers |-> ""]
    /\ cref = [p \in Callers |-> 0]
    /\ ret = [p \in Callers |-> NoRet]
    /\ ndo = 0
    /\ found = [p \in Callers |-> FALSE]
    /\ seen = [p \in Callers |-> NoSeen]
    /\ counter = 0
    /\ overlap = FALSE
    /\ LruIdle
    /\ gpeers = "nil"
    /\ ring = [k \in GKeys |-> ""]
    /\ cacheBytes \in GroupCaps
    /\ lruNil = TRUE /\ panicked = FALSE
    /\ gret = [p \in Callers |-> NoGet]
    /\ nget = 0
    /\ loadCount = [k \in GKeys |-> 0]
    /\ path = [p \in Callers |-> "none"]
    /\ touched = [p \in Callers |-> FALSE]
    /\ concur = FALSE /\ everEvicted = FALSE
    /\ RegIdle
    /\ RingIdle
    /\ PoolIdle
    /\ ServeIdle
    /\ LockIdle
    /\ ClusterIdle

GOwn == UNCHANGED <<counter, hist, order, pre, cacheBytes>>
GFrame == GOwn /\ UNCHANGED <<regvars, ringvars, poolvars, servevars, lockvars, clustervars>>

\* RegisterPeers(pool): set the picker once; a second call panics. The pool is
\* an HTTPPool whose ring resolves every key to node n. The panic ends the
\* program: its goroutines and its memory are gone, nothing runs afterwards.
RegisterPeers(n) ==
    /\ ~panicked
    /\ IF gpeers # "nil"
       THEN /\ panicked' = TRUE
            /\ pc' = [p \in Callers |-> "dead"]
            /\ m' = [k \in DOMAIN m |-> 0] /\ calls' = <<>>
            /\ key' = [p \in Callers |-> ""] /\ cref' = [p \in Callers |-> 0]
            /\ ret' = [p \in Callers |-> NoRet] /\ found' = [p \in Callers |-> FALSE]
            /\ ll' = <<>> /\ cache' = {} /\ nbytes' = 0 /\ evicted' = <<>>
            /\ gret' = [p \in Callers |-> NoGet]
            /\ path' = [p \in Callers |-> "none"]
            /\ touched' = [p \in Callers |-> FALSE]
            /\ UNCHANGED <<gpeers, ring>>
       ELSE /\ gpeers' = "pool"
            /\ ring' = [k \in DOMAIN ring |-> n]
            /\ UNCHANGED <<panicked, pc, m, calls, key, cref, ret, found>>
            /\ UNCHANGED <<ll, cache, nbytes, evicted, gret, path, touched>>
    /\ GFrame
    /\ UNCHANGED <<ndo, seen, overlap, maxBytes, hung, lruNil>>
    /\ UNCHANGED <<nget, loadCount, concur, everEvicted>>

\* Group.Get, lines 49-61: reject the empty key, return a hit of the local
\* store, or go on to load, which calls g.loader.Do.
GetCall(p, k) ==
    /\ ~panicked
    /\ ~Busy(p)
    /\ nget < MaxGet
    /\ nget' = nget + 1
    /\ concur' = (concur \/ \E q \in Callers \ {p} : Busy(q))
    /\ touched' = [touched EXCEPT ![p] = FALSE]
    /\ IF KeyRequired(k)
       THEN /\ gret' = [gret EXCEPT ![p] = [value |-> "", err |-> "key is required"]]
            /\ path' = [path EXCEPT ![p] = "reject"]
            /\ pc' = [pc EXCEPT ![p] = "ret"]
            /\ key' = [key EXCEPT ![p] = k]
            /\ cref' = [cref EXCEPT ![p] = 0]
            /\ UNCHANGED <<ret, ndo, found, seen, overlap, ll>>
       ELSE LET r == CacheGet(k) IN
            IF r.ok
            THEN /\ gret' = [gret EXCEPT ![p] = [value |-> r.value, err |-> ErrNil]]
                 /\ path' = [path EXCEPT ![p] = "hit"]
                 /\ pc' = [pc EXCEPT ![p] = "ret"]
                 /\ key' = [key EXCEPT ![p] = k]
                 /\ cref' = [cref EXCEPT ![p] = 0]
                 /\ ll' = r.st.ll
                 /\ UNCHANGED <<ret, ndo, found, seen, overlap>>
            ELSE /\ gret' = [gret EXCEPT ![p] = NoGet]
                 /\ path' = [path EXCEPT ![p] = "load"]
                 /\ DoBegin(p, k)
                 /\ overlap' = (overlap \/ \A q \in Callers \ {p} : pc[q] = "do_lock")
                 /\ UNCHANGED <<seen, ll>>
    /\ GOwn /\ UNCHANGED ring
    /\ UNCHANGED <<m, calls, maxBytes, nbytes, cache, evicted, hung, lruNil>>
    /\ UNCHANGED <<gpeers, panicked, loadCount, everEvicted>>

\* a goroutine of the program calls g.Get(k)
GGet(p, k) ==
    /\ GetCall(p, k)
    /\ UNCHANGED <<regvars, ringvars, poolvars, servevars, lockvars, clustervars>>

GLookup(p) ==
    /\ ~panicked
    /\ DoLookup(p)
    /\ GFrame /\ UNCHANGED ring
    /\ UNCHANGED <<key, ret, ndo, overlap, lruvars>>
    /\ UNCHANGED <<gpeers, lruNil, panicked, gret, nget, loadCount, path, touched, concur, everEvicted>>

\* load, lines 130-131: with a picker registered, ask it for the key's peer
GPick(p) ==
    /\ ~panicked
    /\ pc[p] = "do_fn"
    /\ pc' = [pc EXCEPT ![p] =
                IF gpeers # "nil" /\ PickPeer(key[p]).ok THEN "fn_fetch" ELSE "fn_local"]
    /\ GFrame /\ UNCHANGED ring
    /\ UNCHANGED <<m, calls, key, cref, ret, ndo, found, seen, overlap, lruvars>>
    /\ UNCHANGED <<gpeers, lruNil, panicked, gret, nget, loadCount, path, touched, concur, everEvicted>>

\* load, lines 132-135: getFromPeer; its value is returned, its error is logged
GFetch(p, r) ==
    /\ ~panicked
    /\ pc[p] = "fn_fetch"
    /\ LET got == HttpGet(r)
           c == cref[p]
       IN IF PeerServed(got.err)
          THEN /\ calls' = [calls EXCEPT ![c].val = <<got.bytes>>, ![c].err = ErrNil,
                                         ![c].done = TRUE, ![c].runs = @ + 1,
                                         ![c].nfetch = @ + 1, ![c].peerok = (got.err = ErrNil)]
               /\ pc' = [pc EXCEPT ![p] = "do_delete"]
          ELSE /\ calls' = [calls EXCEPT ![c].nfetch = @ + 1]
               /\ pc' = [pc EXCEPT ![p] = "fn_local"]
    /\ LET st == IF HttpGet(r).err = ErrNil
                 THEN AfterPeerFetch(key[p], HttpGet(r).bytes) ELSE LruState
       IN ll' = st.ll /\ cache' = st.cache /\ nbytes' = st.nbytes
    /\ GFrame /\ UNCHANGED ring
    /\ UNCHANGED <<m, key, cref, ret, ndo, found, seen, overlap, maxBytes, evicted, hung>>
    /\ UNCHANGED <<gpeers, lruNil, panicked, gret, nget, loadCount, path, touched, concur, everEvicted>>

\* getLocally, lines 74-77: invoke the getter; its error ends the closure
GGetter(p) ==
    /\ ~panicked
    /\ pc[p] = "fn_local"
    /\ loadCount' = [loadCount EXCEPT ![key[p]] = @ + 1]
    /\ LET got == Getter(key[p])
           c == cref[p]
       IN IF GetterFailed(got.err)
          THEN /\ calls' = [calls EXCEPT ![c].val = <<"">>, ![c].err = got.err,
                                         ![c].done = TRUE, ![c].runs = @ + 1,
                                         ![c].ngetter = @ + 1]
               /\ pc' = [pc EXCEPT ![p] = "do_delete"]
          ELSE /\ calls' = [calls EXCEPT ![c].ngetter = @ + 1]
               /\ pc' = [pc EXCEPT ![p] = "fn_add"]
    /\ GFrame /\ UNCHANGED ring
    /\ UNCHANGED <<m, key, cref, ret, ndo, found, seen, overlap, lruvars>>
    /\ UNCHANGED <<gpeers, lruNil, panicked, gret, nget, path, touched, concur, everEvicted>>

\* getLocally, lines 78-80: clone the bytes, populateCache, return the value
GPopulate(p) ==
    /\ ~panicked
    /\ pc[p] = "fn_add"
    /\ LET v == Getter(key[p]).bytes
           st == CacheAdd(key[p], v)
       IN /\ ll' = st.ll /\ cache' = st.cache /\ nbytes' = st.nbytes
          /\ evicted' = st.evicted /\ hung' = st.hung
          /\ maxBytes' = IF lruNil THEN cacheBytes ELSE maxBytes
          /\ lruNil' = FALSE
          /\ everEvicted' = (everEvicted \/ st.evicted # <<>>)
          /\ touched' = [touched EXCEPT ![p] = TRUE]
          /\ calls' = [calls EXCEPT ![cref[p]].val = <<v>>, ![cref[p]].err = ErrNil,
                                    ![cref[p]].done = TRUE, ![cref[p]].runs = @ + 1]
          /\ pc' = [pc EXCEPT ![p] = "do_delete"]
    /\ GFrame /\ UNCHANGED ring
    /\ UNCHANGED <<m, key, cref, ret, ndo, found, seen, overlap>>
    /\ UNCHANGED <<gpeers, panicked, gret, nget, loadCount, path, concur>>

\* load, lines 142-145, and Get's return of it: Do's value when err == nil,
\* else the named results: value is still ByteView{} and err is Do's error
LoadRet(r) ==
    IF r.err = ErrNil THEN [value |-> r.val[1], err |-> ErrNil]
    ELSE [value |-> "", err |-> r.err]

GDelete(p) ==
    /\ ~panicked
    /\ DoDelete(p)
    /\ gret' = [gret EXCEPT ![p] = LoadRet(ret'[p])]
    /\ GFrame /\ UNCHANGED ring
    /\ UNCHANGED <<key, cref, ndo, found, seen, overlap, lruvars>>
    /\ UNCHANGED <<gpeers, lruNil, panicked, nget, loadCount, path, touched, concur, everEvicted>>

GWait(p) ==
    /\ ~panicked
    /\ DoWait(p)
    /\ gret' = [gret EXCEPT ![p] = LoadRet(ret'[p])]
    /\ GFrame /\ UNCHANGED ring
    /\ UNCHANGED <<m, calls, key, cref, ndo, found, seen, overlap, lruvars>>
    /\ UNCHANGED <<gpeers, lruNil, panicked, nget, loadCount, path, touched, concur, everEvicted>>

GroupNext ==
    \/ \E n \in Nodes : RegisterPeers(n)
    \/ \E p \in Callers, k \in GKeys : GGet(p, k)
    \/ \E p \in Callers : GLookup(p)
    \/ \E p \in Callers : GPick(p)
    \/ \E p \in Callers, r \in Responses : GFetch(p, r)
    \/ \E p \in Callers : GGetter(p)
    \/ \E p \in Callers : GPopulate(p)
    \/ \E p \in Callers : GDelete(p)
    \/ \E p \in Callers : GWait(p)

SpecGroup == GroupInit /\ [][GroupNext]_vars

\* ------------------------------------------- the registry: NewGroup, GetGroup

\* NewGroup: panic on a nil getter; else, under mu, allocate the group and
\* bind its name: groups[name] = g
NewGroupOp(n, getter) ==
    IF getter = "nil"
    THEN [panic |-> "nil Getter", groups |-> groups, gheap |-> gheap]
    ELSE [panic |-> "",
          groups |-> [groups EXCEPT ![n] = Len(gheap) + 1],
          gheap |-> Append(gheap, [name |-> n, peers |-> "nil"])]

\* GetGroup: g := groups[name] under the read lock; nil when absent
GetGroupOp(n) == IF n \in DOMAIN groups THEN groups[n] ELSE 0

RegInit ==
    /\ SFIdle
    /\ LruIdle
    /\ GroupIdle
    /\ RegIdle
    /\ RingIdle
    /\ PoolIdle
    /\ ServeIdle
    /\ LockIdle
    /\ ClusterIdle

NewGroup(t, n, getter) ==
    /\ RegFrame
    /\ regPanic = ""
    /\ rpc[t] = "idle"
    /\ Len(gheap) < MaxGroups
    /\ LET r == NewGroupOp(n, getter) IN
        /\ regPanic' = r.panic
        /\ groups' = r.groups
        /\ gheap' = r.gheap
        /\ nset' = IF r.panic = "" THEN Append(nset, 0) ELSE nset
        /\ firstOf' = IF r.panic = "" /\ firstOf[n] = 0
                      THEN [firstOf EXCEPT ![n] = Len(gheap) + 1] ELSE firstOf
    /\ UNCHANGED <<rpc, rarg, rgot, nreg>>

GetGroup(t, n) ==
    /\ RegFrame
    /\ regPanic = ""
    /\ rpc[t] = "idle"
    /\ rgot' = [rgot EXCEPT ![t] = [name |-> n, g |-> GetGroupOp(n), first |-> firstOf[n]]]
    /\ UNCHANGED <<groups, gheap, rpc, rarg, firstOf, nset, regPanic, nreg>>

\* RegisterPeers, lines 91-93: if g.peers != nil { panic(...) }. The field is
\* read without a lock; the assignment is a later step of the goroutine.
RegCheck(t, g, picker) ==
    /\ RegFrame
    /\ regPanic = ""
    /\ rpc[t] = "idle"
    /\ nreg < MaxReg
    /\ g \in 1..Len(gheap)
    /\ nreg' = nreg + 1
    /\ rarg' = [rarg EXCEPT ![t] = [g |-> g, picker |-> picker]]
    /\ IF gheap[g].peers # "nil"
       THEN regPanic' = "RegisterPeerPicker called more than once" /\ UNCHANGED rpc
       ELSE rpc' = [rpc EXCEPT ![t] = "reg_set"] /\ UNCHANGED regPanic
    /\ UNCHANGED <<groups, gheap, rgot, firstOf, nset>>

\* RegisterPeers, line 94: g.peers = peers
RegAssign(t) ==
    /\ RegFrame
    /\ regPanic = ""
    /\ rpc[t] = "reg_set"
    /\ gheap' = [gheap EXCEPT ![rarg[t].g].peers = rarg[t].picker]
    /\ nset' = [nset EXCEPT ![rarg[t].g] = @ + 1]
    /\ rpc' = [rpc EXCEPT ![t] = "idle"]
    /\ UNCHANGED <<groups, rarg, rgot, firstOf, regPanic, nreg>>

RegNext ==
    \/ \E t \in Callers, n \in GNames, getter \in {"nil", "fn"} : NewGroup(t, n, getter)
    \/ \E t \in Callers, n \in GNames : GetGroup(t, n)
    \/ \E t \in Callers, g \in 1..MaxGroups, picker \in Pickers : RegCheck(t, g, picker)
    \/ \E t \in Callers : RegAssign(t)

SpecRegistry == RegInit /\ [][RegNext]_vars

\* ------------------------------------------------------- consistenthash.Map

\* The hash of a virtual node's name is drawn when Add first computes it and
\* kept from then on; the hashes of the looked-up keys are drawn at the start.
\* The Map as a value: what Add and Get read and write.
MapState == [keys |-> mkeys, hashMap |-> mhashMap]

\* New(replicas, fn)
MapNew == [keys |-> <<>>, hashMap |-> [h \in HashVals |-> ""]]

\* Add, lines 39-48: for i := 0; i < m.replicas; i++ { append the virtual
\* node's hash to m.keys; m.hashMap[hash] = key }
RECURSIVE AddReplicas(_, _, _, _)
AddReplicas(st, n, i, hash) ==
    IF i >= mreplicas THEN st
    ELSE LET h == hash[VirtualName(i, n)] IN
         AddReplicas([keys |-> Append(st.keys, h),
                      hashMap |-> [st.hashMap EXCEPT ![h] = n]], n, i + 1, hash)

\* Add, line 37: for _, key := range keys
RECURSIVE AddNodes(_, _, _)
AddNodes(st, batch, hash) ==
    IF batch = <<>> THEN st
    ELSE AddNodes(AddReplicas(st, Head(batch), 0, hash), Tail(batch), hash)

\* sort.Ints: ascending order, by insertion
RECURSIVE InsertInt(_, _)
InsertInt(srt, x) ==
    IF srt = <<>> THEN <<x>>
    ELSE IF x <= Head(srt) THEN <<x>> \o srt
    ELSE <<Head(srt)>> \o InsertInt(Tail(srt), x)
RECURSIVE SortIntsFrom(_, _)
SortIntsFrom(srt, rest) ==
    IF rest = <<>> THEN srt ELSE SortIntsFrom(InsertInt(srt, Head(rest)), Tail(rest))
SortIntsNot(ks) == ks
SortInts(ks) == SortIntsFrom(<<>>, ks)

\* Add
MapAdd(st, batch, hash) ==
    LET st2 == AddNodes(st, batch, hash) IN [st2 EXCEPT !.keys = SortInts(st2.keys)]

\* sort.Search(n, f): binary search for the smallest index in [0, n) at which
\* m.keys[i] >= hash, n when there is none (indices from 0, as in the code)
RECURSIVE SearchFrom(_, _, _, _)
SearchFrom(ks, h, i, j) ==
    IF i >= j THEN i
    ELSE LET mid == (i + j) \div 2 IN
         IF ~(ks[mid + 1] >= h) THEN SearchFrom(ks, h, mid + 1, j)
         ELSE SearchFrom(ks, h, i, mid)
Search(ks, h) == SearchFrom(ks, h, 0, Len(ks))

\* idx % len(m.keys)
WrapNot(idx, n) == IF idx = n THEN n - 1 ELSE idx
Wrap(idx, n) == idx % n

\* Get
MapGet(st, k) ==
    IF Len(st.keys) = 0 THEN ""
    ELSE LET idx == Search(st.keys, mhash[k]) IN
         st.hashMap[st.keys[Wrap(idx, Len(st.keys)) + 1]]

\* the real nodes that own a virtual node
RingNodes(st) == {st.hashMap[st.keys[i]] : i \in 1..Len(st.keys)}

RingInit ==
    /\ SFIdle
    /\ LruIdle
    /\ GroupIdle
    /\ RegIdle
    /\ \E kh \in [RKeys -> HashVals] :
          mhash = [x \in Points |-> IF x \in RKeys THEN kh[x] ELSE Unhashed]
    /\ mreplicas \in ReplicaChoices
    /\ mkeys = MapNew.keys
    /\ mhashMap = MapNew.hashMap
    /\ nadd = 0
    /\ added = <<>>
    /\ before = {}
    /\ prevOwner = [k \in RKeys |-> ""]
    /\ lastGet = [k \in RKeys |-> "none"]
    /\ PoolIdle
    /\ ServeIdle
    /\ LockIdle
    /\ ClusterIdle

RAdd(batch) ==
    /\ RingFrame
    /\ nadd < MaxAdd
    /\ nadd' = nadd + 1
    /\ LET new == {x \in Points : /\ mhash[x] = Unhashed
                                   /\ \E i \in 0..(mreplicas - 1), j \in 1..Len(batch) :
                                         x = VirtualName(i, batch[j])}
       IN \E h \in [new -> HashVals] :
            /\ mhash' = [x \in Points |-> IF x \in new THEN h[x] ELSE mhash[x]]
            /\ LET st == MapAdd(MapState, batch, mhash') IN
                 /\ mkeys' = st.keys
                 /\ mhashMap' = st.hashMap
    /\ added' = batch
    /\ before' = RingNodes(MapState)
    /\ prevOwner' = [k \in RKeys |-> MapGet(MapState, k)]
    /\ lastGet' = [k \in RKeys |-> "none"]
    /\ UNCHANGED mreplicas

RGet(k) ==
    /\ RingFrame
    /\ lastGet[k] = "none"
    /\ lastGet' = [lastGet EXCEPT ![k] = MapGet(MapState, k)]
    /\ UNCHANGED <<mhash, mreplicas, mkeys, mhashMap, nadd, added, before, prevOwner>>

RingNext ==
    \/ \E batch \in Batches : RAdd(batch)
    \/ \E k \in RKeys : RGet(k)

SpecRing == RingInit /\ [][RingNext]_vars

\* ----------------------------------------------------------------- HTTPPool

\* Set, lines 79-82: one httpGetter per peer, baseURL: peer + p.basePath
GettersFor(peers) ==
    [n \in RNodes |-> IF \E j \in 1..Len(peers) : peers[j] = n THEN n \o BasePath ELSE ""]

\* PickPeer, lines 91-98: the ring's node for key, unless it is "" or self
PickPeerOp(st, getters, k) ==
    LET peer == MapGet(st, k) IN
    IF peer # "" /\ peer # Self THEN [key |-> k, handle |-> getters[peer], ok |-> TRUE]
    ELSE [key |-> k, handle |-> "", ok |-> FALSE]

PoolInit ==
    /\ SFIdle
    /\ LruIdle
    /\ GroupIdle
    /\ RegIdle
    /\ \E kh \in [RKeys -> HashVals] :
          mhash = [x \in Points |-> IF x \in RKeys THEN kh[x] ELSE Unhashed]
    /\ mreplicas \in ReplicaChoices
    /\ mkeys = MapNew.keys
    /\ mhashMap = MapNew.hashMap
    /\ nadd = 0
    /\ added = <<>>
    /\ before = {}
    /\ prevOwner = [k \in RKeys |-> ""]
    /\ lastGet = [k \in RKeys |-> "none"]
    /\ PoolIdle
    /\ ServeIdle
    /\ LockIdle
    /\ ClusterIdle

\* Set: under p.mu, a new ring of the given peers and a new getter table
PoolSet(peers) ==
    /\ PoolFrame
    /\ poolPanic = ""
    /\ npool < MaxSet
    /\ npool' = npool + 1
    /\ LET new == {x \in Points : /\ mhash[x] = Unhashed
                                   /\ \E i \in 0..(mreplicas - 1), j \in 1..Len(peers) :
                                         x = VirtualName(i, peers[j])}
       IN \E h \in [new -> HashVals] :
            /\ mhash' = [x \in Points |-> IF x \in new THEN h[x] ELSE mhash[x]]
            /\ LET st == MapAdd(MapNew, peers, mhash') IN
                 /\ mkeys' = st.keys
                 /\ mhashMap' = st.hashMap
    /\ httpGetters' = GettersFor(peers)
    /\ peersNil' = FALSE
    /\ lastSet' = peers
    /\ pick' = NoPick
    /\ UNCHANGED <<mreplicas, nadd, added, before, prevOwner, lastGet, poolPanic>>

\* PickPeer: under p.mu, p.peers.Get(key); with p.peers == nil the method
\* call reads m.keys through a nil *Map and the runtime panics
PoolPick(k) ==
    /\ PoolFrame
    /\ poolPanic = ""
    /\ IF peersNil
       THEN /\ poolPanic' = "invalid memory address or nil pointer dereference"
            /\ UNCHANGED pick
       ELSE /\ pick' = PickPeerOp(MapState, httpGetters, k)
            /\ UNCHANGED poolPanic
    /\ UNCHANGED <<ringvars, peersNil, httpGetters, lastSet, npool>>

PoolNext ==
    \/ \E peers \in PeerLists : PoolSet(peers)
    \/ \E k \in RKeys : PoolPick(k)

SpecPool == PoolInit /\ [][PoolNext]_vars

\* ------------------------------------------------------- HTTPPool.ServeHTTP

\* A request path is a sequence of tokens: "/" or a run of other characters.
BasePathToks == <<"/", "_geecache", "/">>
Rests ==
    {<<"scores">>, <<"scores", "/">>, <<"scores", "/", "Tom">>,
     <<"scores", "/", "Tom", "/", "x">>, <<"ages", "/", "Tom">>}
Paths == {BasePathToks \o r : r \in Rests} \cup {<<"/", "x">>}

\* the keys a request can ask the group for
SKeys == GKeys \cup {"Tom/x"}

\* the string a token sequence spells
RECURSIVE Join(_)
Join(toks) == IF toks = <<>> THEN "" ELSE Head(toks) \o Join(Tail(toks))

\* strings.HasPrefix(r.URL.Path, p.basePath)
HasPrefix(s, prefix) ==
    Len(s) >= Len(prefix) /\ SubSeq(s, 1, Len(prefix)) = prefix

\* r.URL.Path[len(p.basePath):]
TrimBase(s) == SubSeq(s, Len(BasePathToks) + 1, Len(s))

\* strings.Index(s, "/"), counted in tokens from 1; 0: not found
RECURSIVE IndexFrom(_, _)
IndexFrom(s, i) ==
    IF i > Len(s) THEN 0 ELSE IF s[i] = "/" THEN i ELSE IndexFrom(s, i + 1)

\* strings.Split(s, "/"): every piece
RECURSIVE SplitAll(_)
SplitAll(s) ==
    LET i == IndexFrom(s, 1) IN
    IF i = 0 THEN <<Join(s)>>
    ELSE <<Join(SubSeq(s, 1, i - 1))>> \o SplitAll(SubSeq(s, i + 1, Len(s)))

\* strings.SplitN(s, "/", 2): cut at the first "/", the rest is left whole
SplitN2(s) ==
    LET i == IndexFrom(s, 1) IN
    IF i = 0 THEN <<Join(s)>>
    ELSE <<Join(SubSeq(s, 1, i - 1)), Join(SubSeq(s, i + 1, Len(s)))>>

\* http.Error(w, msg, code): the status and the message as one line
HttpError(msg, code) == [status |-> code, body |-> msg \o "\n", panic |-> FALSE]

\* lines 72-74: 200 with the value's bytes
HttpOK(bytes) == [status |-> 200, body |-> bytes, panic |-> FALSE]

\* line 38: panic("HTTPPool serving unexpected path: " + r.URL.Path)
ServePanic == [status |-> 0, body |-> "", panic |-> TRUE]

\* The process serves one group, "scores", once NewGroup has registered it.
ServeInit ==
    /\ m = [k \in SKeys |-> 0]
    /\ calls = <<>>
    /\ pc = [p \in Callers |-> "idle"]
    /\ key = [p \in Callers |-> ""]
    /\ cref = [p \in Callers |-> 0]
    /\ ret = [p \in Callers |-> NoRet]
    /\ ndo = 0
    /\ found = [p \in Callers |-> FALSE]
    /\ seen = [p \in Callers |-> NoSeen]
    /\ counter = 0
    /\ overlap = FALSE
    /\ LruIdle
    /\ gpeers = "nil"
    /\ ring = [k \in SKeys |-> ""]
    /\ cacheBytes \in GroupCaps
    /\ lruNil = TRUE /\ panicked = FALSE
    /\ gret = [p \in Callers |-> NoGet]
    /\ nget = 0
    /\ loadCount = [k \in SKeys |-> 0]
    /\ path = [p \in Callers |-> "none"]
    /\ touched = [p \in Callers |-> FALSE]
    /\ concur = FALSE /\ everEvicted = FALSE
    /\ \E made \in BOOLEAN :
         /\ groups = [n \in GNames |-> IF made /\ n = "scores" THEN 1 ELSE 0]
         /\ gheap = IF made THEN <<[name |-> "scores", peers |-> "nil"]>> ELSE <<>>
         /\ firstOf = [n \in GNames |-> IF made /\ n = "scores" THEN 1 ELSE 0]
         /\ nset = IF made THEN <<0>> ELSE <<>>
    /\ rpc = [t \in Callers |-> "idle"]
    /\ rarg = [t \in Callers |-> [g |-> 0, picker |-> "nil"]]
    /\ rgot = [t \in Callers |-> NoGot]
    /\ regPanic = "" /\ nreg = 0
    /\ RingIdle
    /\ PoolIdle
    /\ ServeIdle
    /\ LockIdle
    /\ ClusterIdle

\* a request that ends before group.Get is called: only the answer is written
Answer(p, r) ==
    /\ resp' = [resp EXCEPT ![p] = r]
    /\ nget' = nget + 1
    /\ UNCHANGED <<sfvars, lruvars, serving, lockvars, clustervars>>
    /\ UNCHANGED <<gpeers, ring, cacheBytes, lruNil, panicked, gret, loadCount,
                   path, touched, concur, everEvicted>>

\* ServeHTTP, lines 37-64: check the prefix, split the rest into group name
\* and key, look the group up, and call group.Get(key). The requests served
\* count against the same budget as the Get calls.
SHServe(p, s) ==
    /\ ~panicked
    /\ ~Busy(p)
    /\ ~serving[p]
    /\ nget < MaxGet
    /\ req' = [req EXCEPT ![p] = s]
    /\ IF ~HasPrefix(s, BasePathToks)
       THEN Answer(p, ServePanic)
       ELSE LET parts == SplitN2(TrimBase(s)) IN
            IF Len(parts) # 2
            THEN Answer(p, HttpError("bad request", 400))
            ELSE IF GetGroupOp(parts[1]) = 0
            THEN Answer(p, HttpError("no such group: " \o parts[1], 404))
            ELSE /\ resp' = [resp EXCEPT ![p] = NoResp]
                 /\ serving' = [serving EXCEPT ![p] = TRUE]
                 /\ GetCall(p, parts[2])
    /\ UNCHANGED <<regvars, ringvars, poolvars, lockvars, clustervars>>

\* ServeHTTP, lines 65-74: 500 with the error text, or 200 with the bytes
SHRespond(p) ==
    /\ ~panicked
    /\ serving[p]
    /\ pc[p] = "ret"
    /\ resp' = [resp EXCEPT ![p] =
                  IF gret[p].err # ErrNil THEN HttpError(gret[p].err, 500)
                  ELSE HttpOK(gret[p].value)]
    /\ serving' = [serving EXCEPT ![p] = FALSE]
    /\ UNCHANGED <<sfvars, lruvars, gvars, regvars, ringvars, poolvars, req, lockvars, clustervars>>

ServeNext ==
    \/ \E p \in Callers, s \in Paths : SHServe(p, s)
    \/ \E p \in Callers : SHRespond(p)
    \/ \E n \in Nodes : RegisterPeers(n)
    \/ \E p \in Callers : GLookup(p)
    \/ \E p \in Callers : GPick(p)
    \/ \E p \in Callers, r \in Responses : GFetch(p, r)
    \/ \E p \in Callers : GGetter(p)
    \/ \E p \in Callers : GPopulate(p)
    \/ \E p \in Callers : GDelete(p)
    \/ \E p \in Callers : GWait(p)

SpecServe == ServeInit /\ [][ServeNext]_vars


\* ------------------------------------------------------------ the locks
\* The exported operations cut at their lock calls: every action below is one
\* Lock, RLock, Unlock or RUnlock of the source, the start or the end of a
\* callback, or a return. What a critical section computes is left out
\* except for the coalescer's table, which decides who waits for whom; a
\* cache hit, the peer picked and the errors of a fetch or of the getter are
\* inputs of the step that reads them.
MaxOps == 3

\* The locks goroutine t holds
Held(t) ==
    {l \in Locks : lockOwner[l] = t} \cup (IF t \in lockReaders THEN {"mu"} ELSE {})

\* sync.Mutex.Lock and RWMutex.Lock return once nobody holds the lock (the
\* caller included: the mutexes are not reentrant)
CanLock(l) == lockOwner[l] = 0 /\ (l = "mu" => lockReaders = {})

\* RWMutex.RLock returns once no writer holds the lock
CanRLock == lockOwner["mu"] = 0

Lock(own, l, t) == [own EXCEPT ![l] = t]

UnlockNot(own, l) == own

Unlock(own, l) == [own EXCEPT ![l] = 0]

\* t moves on to `to`; the operation is over when t is back at "idle"
LkGoto(t, to) ==
    /\ lkpc' = [lkpc EXCEPT ![t] = to]
    /\ lkop' = [lkop EXCEPT ![t] = IF to = "idle" THEN "" ELSE @]

\* t begins the exported operation op
LkBegin(t, op, to) ==
    /\ ~lkpanic
    /\ lkpc[t] = "idle"
    /\ lkops < MaxOps
    /\ lkops' = lkops + 1
    /\ lkpc' = [lkpc EXCEPT ![t] = to]
    /\ lkop' = [lkop EXCEPT ![t] = IF to = "idle" THEN "" ELSE op]

\* t takes lock l
LkLock(t, l, to) ==
    /\ ~lkpanic
    /\ CanLock(l)
    /\ lockOwner' = Lock(lockOwner, l, t)
    /\ LkGoto(t, to)
    /\ UNCHANGED <<lockReaders, lktab, lkwg, lkref, lkcb, lkset, lkpeers, lkpanic, lkops>>
    /\ LockFrame

LockInit ==
    /\ SFIdle
    /\ LruIdle
    /\ GroupIdle
    /\ RegIdle
    /\ RingIdle
    /\ PoolIdle
    /\ ServeIdle
    /\ ClusterIdle
    /\ lockOwner = [l \in Locks |-> 0]
    /\ lockReaders = {}
    /\ lkpc = [t \in Callers |-> "idle"]
    /\ lkop = [t \in Callers |-> ""]
    /\ lktab = 0
    /\ lkwg = <<>>
    /\ lkref = [t \in Callers |-> 0]
    /\ lkcb = [t \in Callers |-> {}]
    /\ lkset = FALSE
    /\ lkpeers \in BOOLEAN
    /\ lkpanic = FALSE
    /\ lkops = 0

\* NewGroup, lines 37-40: a nil getter panics before the lock is taken
LkNewGroup(t, getterNil) ==
    /\ LkBegin(t, "NewGroup", IF getterNil THEN "idle" ELSE "ng_lock")
    /\ lkpanic' = getterNil
    /\ UNCHANGED <<lockOwner, lockReaders, lktab, lkwg, lkref, lkcb, lkset, lkpeers>>
    /\ LockFrame

\* NewGroup, line 41: mu.Lock()
LkNewGroupLock(t) ==
    /\ lkpc[t] = "ng_lock"
    /\ LkLock(t, "mu", "ng_locked")

\* NewGroup, lines 42-49: the group is stored and the deferred mu.Unlock() runs
LkNewGroupUnlock(t) ==
    /\ ~lkpanic
    /\ lkpc[t] = "ng_locked"
    /\ lockOwner' = Unlock(lockOwner, "mu")
    /\ LkGoto(t, "idle")
    /\ UNCHANGED <<lockReaders, lktab, lkwg, lkref, lkcb, lkset, lkpeers, lkpanic, lkops>>
    /\ LockFrame

\* GetGroup is called
LkGetGroup(t) ==
    /\ LkBegin(t, "GetGroup", "gg_rlock")
    /\ UNCHANGED <<lockOwner, lockReaders, lktab, lkwg, lkref, lkcb, lkset, lkpeers, lkpanic>>
    /\ LockFrame

\* GetGroup, line 54: mu.RLock()
LkGetGroupRLock(t) ==
    /\ ~lkpanic
    /\ lkpc[t] = "gg_rlock"
    /\ CanRLock
    /\ lockReaders' = lockReaders \cup {t}
    /\ LkGoto(t, "gg_rlocked")
    /\ UNCHANGED <<lockOwner, lktab, lkwg, lkref, lkcb, lkset, lkpeers, lkpanic, lkops>>
    /\ LockFrame

\* GetGroup, lines 55-57: mu.RUnlock() and return. ServeHTTP goes on to
\* group.Get when the group was found, and answers 404 when it was not.
LkGetGroupRUnlock(t, isFound) ==
    /\ ~lkpanic
    /\ lkpc[t] = "gg_rlocked"
    /\ lockReaders' = lockReaders \ {t}
    /\ LkGoto(t, IF lkop[t] = "ServeHTTP" /\ isFound THEN "get" ELSE "idle")
    /\ UNCHANGED <<lockOwner, lktab, lkwg, lkref, lkcb, lkset, lkpeers, lkpanic, lkops>>
    /\ LockFrame

\* ServeHTTP, lines 35-56: a path without the prefix panics and a remainder
\* without '/' is answered 400 before any lock is taken; otherwise GetGroup
LkServeHTTP(t, wellFormed) ==
    /\ LkBegin(t, "ServeHTTP", IF wellFormed THEN "gg_rlock" ELSE "idle")
    /\ UNCHANGED <<lockOwner, lockReaders, lktab, lkwg, lkref, lkcb, lkset, lkpeers, lkpanic>>
    /\ LockFrame

\* Group.Get is called
LkGet(t) ==
    /\ LkBegin(t, "Get", "get")
    /\ UNCHANGED <<lockOwner, lockReaders, lktab, lkwg, lkref, lkcb, lkset, lkpeers, lkpanic>>
    /\ LockFrame

\* Group.Get, lines 49-55: the empty key is rejected, any other is looked up
LkGetEntry(t, isEmpty) ==
    /\ ~lkpanic
    /\ lkpc[t] = "get"
    /\ LkGoto(t, IF isEmpty THEN "idle" ELSE "cg_lock")
    /\ UNCHANGED <<lockOwner, lockReaders, lktab, lkwg, lkref, lkcb, lkset, lkpeers, lkpanic, lkops>>
    /\ LockFrame

\* cache.get, line 29: c.mu.Lock()
LkCacheGetLock(t) ==
    /\ lkpc[t] = "cg_lock"
    /\ LkLock(t, "c.mu", "cg_locked")

\* cache.get, lines 30-40, and Group.Get, lines 55-61: the deferred
\* c.mu.Unlock() runs; a hit returns, a miss goes to load and so to Do
LkCacheGetUnlock(t, hit) ==
    /\ ~lkpanic
    /\ lkpc[t] = "cg_locked"
    /\ lockOwner' = Unlock(lockOwner, "c.mu")
    /\ LkGoto(t, IF hit THEN "idle" ELSE "do_lock")
    /\ UNCHANGED <<lockReaders, lktab, lkwg, lkref, lkcb, lkset, lkpeers, lkpanic, lkops>>
    /\ LockFrame

\* Do, line 22: g.mu.Lock()
LkDoLock(t) ==
    /\ lkpc[t] = "do_lock"
    /\ LkLock(t, "g.mu", "do_locked")

\* Do, lines 30-40: with an entry in the table, unlock and go to wait for
\* it; without, register a new call and unlock
LkDoUnlock(t) ==
    /\ ~lkpanic
    /\ lkpc[t] = "do_locked"
    /\ lockOwner' = Unlock(lockOwner, "g.mu")
    /\ IF lktab # 0
       THEN /\ lkref' = [lkref EXCEPT ![t] = lktab]
            /\ LkGoto(t, "do_wait")
            /\ UNCHANGED <<lktab, lkwg>>
       ELSE /\ lkwg' = Append(lkwg, FALSE)
            /\ lktab' = Len(lkwg) + 1
            /\ lkref' = [lkref EXCEPT ![t] = Len(lkwg) + 1]
            /\ LkGoto(t, "do_call")
    /\ UNCHANGED <<lockReaders, lkcb, lkset, lkpeers, lkpanic, lkops>>
    /\ LockFrame

\* Do, lines 32-33: c.wg.Wait() returns once the call is done
LkDoWait(t) ==
    /\ ~lkpanic
    /\ lkpc[t] = "do_wait"
    /\ lkwg[lkref[t]]
    /\ LkGoto(t, "idle")
    /\ UNCHANGED <<lockOwner, lockReaders, lktab, lkwg, lkref, lkcb, lkset, lkpeers, lkpanic, lkops>>
    /\ LockFrame

\* Do, line 43, and load, lines 129-131: fn starts; with a picker registered
\* it asks PickPeer, without one it goes to getLocally
LkFnEnter(t) ==
    /\ ~lkpanic
    /\ lkpc[t] = "do_call"
    /\ lkcb' = [lkcb EXCEPT ![t] = @ \cup {"fn"}]
    /\ LkGoto(t, IF lkpeers THEN "pp_lock" ELSE "getter")
    /\ UNCHANGED <<lockOwner, lockReaders, lktab, lkwg, lkref, lkset, lkpeers, lkpanic, lkops>>
    /\ LockFrame

\* PickPeer is called from outside
LkPickPeer(t) ==
    /\ LkBegin(t, "PickPeer", "pp_lock")
    /\ UNCHANGED <<lockOwner, lockReaders, lktab, lkwg, lkref, lkcb, lkset, lkpeers, lkpanic>>
    /\ LockFrame

\* PickPeer, line 87: p.mu.Lock()
LkPickPeerLock(t) ==
    /\ lkpc[t] = "pp_lock"
    /\ LkLock(t, "p.mu", "pp_locked")

\* PickPeer, lines 88-98: p.peers.Get panics on the nil ring of a pool no Set
\* was called on; the deferred p.mu.Unlock() runs either way. Inside fn a
\* peer picked is fetched from, and no peer leads to getLocally.
LkPickPeerUnlock(t, ok) ==
    /\ ~lkpanic
    /\ lkpc[t] = "pp_locked"
    /\ lockOwner' = Unlock(lockOwner, "p.mu")
    /\ lkpanic' = ~lkset
    /\ LkGoto(t, IF "fn" \notin lkcb[t] THEN "idle"
                 ELSE IF ok THEN "fetch" ELSE "getter")
    /\ UNCHANGED <<lockReaders, lktab, lkwg, lkref, lkcb, lkset, lkpeers, lkops>>
    /\ LockFrame

\* load, line 132, and getFromPeer, line 99: peer.Get starts
LkFetchStart(t) ==
    /\ ~lkpanic
    /\ lkpc[t] = "fetch"
    /\ lkcb' = [lkcb EXCEPT ![t] = @ \cup {"fetch"}]
    /\ LkGoto(t, "fetching")
    /\ UNCHANGED <<lockOwner, lockReaders, lktab, lkwg, lkref, lkset, lkpeers, lkpanic, lkops>>
    /\ LockFrame

\* getFromPeer, lines 99-103, and load, lines 132-139: peer.Get returns; its
\* value is fn's result, its error leads to getLocally
LkFetchEnd(t, failed) ==
    /\ ~lkpanic
    /\ lkpc[t] = "fetching"
    /\ lkcb' = [lkcb EXCEPT ![t] = @ \ {"fetch"}]
    /\ LkGoto(t, IF failed THEN "getter" ELSE "fn_ret")
    /\ UNCHANGED <<lockOwner, lockReaders, lktab, lkwg, lkref, lkset, lkpeers, lkpanic, lkops>>
    /\ LockFrame

\* getLocally, line 74: g.getter.Get starts
LkGetterStart(t) ==
    /\ ~lkpanic
    /\ lkpc[t] = "getter"
    /\ lkcb' = [lkcb EXCEPT ![t] = @ \cup {"getter"}]
    /\ LkGoto(t, "getting")
    /\ UNCHANGED <<lockOwner, lockReaders, lktab, lkwg, lkref, lkset, lkpeers, lkpanic, lkops>>
    /\ LockFrame

\* getLocally, lines 74-79: the getter returns; its error is fn's result,
\* its bytes go to populateCache
LkGetterEnd(t, failed) ==
    /\ ~lkpanic
    /\ lkpc[t] = "getting"
    /\ lkcb' = [lkcb EXCEPT ![t] = @ \ {"getter"}]
    /\ LkGoto(t, IF failed THEN "fn_ret" ELSE "ca_lock")
    /\ UNCHANGED <<lockOwner, lockReaders, lktab, lkwg, lkref, lkset, lkpeers, lkpanic, lkops>>
    /\ LockFrame

\* cache.add, line 17: c.mu.Lock()
LkCacheAddLock(t) ==
    /\ lkpc[t] = "ca_lock"
    /\ LkLock(t, "c.mu", "ca_locked")

\* cache.add, lines 18-25: the deferred c.mu.Unlock() runs
LkCacheAddUnlock(t) ==
    /\ ~lkpanic
    /\ lkpc[t] = "ca_locked"
    /\ lockOwner' = Unlock(lockOwner, "c.mu")
    /\ LkGoto(t, "fn_ret")
    /\ UNCHANGED <<lockReaders, lktab, lkwg, lkref, lkcb, lkset, lkpeers, lkpanic, lkops>>
    /\ LockFrame

\* Do, lines 43-44: fn returns and c.wg.Done() is called
LkFnReturn(t) ==
    /\ ~lkpanic
    /\ lkpc[t] = "fn_ret"
    /\ lkcb' = [lkcb EXCEPT ![t] = @ \ {"fn"}]
    /\ lkwg' = [lkwg EXCEPT ![lkref[t]] = TRUE]
    /\ LkGoto(t, "del_lock")
    /\ UNCHANGED <<lockOwner, lockReaders, lktab, lkref, lkset, lkpeers, lkpanic, lkops>>
    /\ LockFrame

\* Do, line 46: g.mu.Lock()
LkDeleteLock(t) ==
    /\ lkpc[t] = "del_lock"
    /\ LkLock(t, "g.mu", "del_locked")

\* Do, lines 47-50: delete(g.m, key); g.mu.Unlock(); return
LkDeleteUnlock(t) ==
    /\ ~lkpanic
    /\ lkpc[t] = "del_locked"
    /\ lktab' = 0
    /\ lockOwner' = Unlock(lockOwner, "g.mu")
    /\ LkGoto(t, "idle")
    /\ UNCHANGED <<lockReaders, lkwg, lkref, lkcb, lkset, lkpeers, lkpanic, lkops>>
    /\ LockFrame

\* HTTPPool.Set is called
LkSet(t) ==
    /\ LkBegin(t, "Set", "set_lock")
    /\ UNCHANGED <<lockOwner, lockReaders, lktab, lkwg, lkref, lkcb, lkset, lkpeers, lkpanic>>
    /\ LockFrame

\* Set, line 71: p.mu.Lock()
LkSetLock(t) ==
    /\ lkpc[t] = "set_lock"
    /\ LkLock(t, "p.mu", "set_locked")

\* Set, lines 72-83: the ring and the getters are rebuilt and the deferred
\* p.mu.Unlock() runs
LkSetUnlock(t) ==
    /\ ~lkpanic
    /\ lkpc[t] = "set_locked"
    /\ lkset' = TRUE
    /\ lockOwner' = Unlock(lockOwner, "p.mu")
    /\ LkGoto(t, "idle")
    /\ UNCHANGED <<lockReaders, lktab, lkwg, lkref, lkcb, lkpeers, lkpanic, lkops>>
    /\ LockFrame

LockNext ==
    \/ \E t \in Callers, b \in BOOLEAN : LkNewGroup(t, b)
    \/ \E t \in Callers : LkNewGroupLock(t)
    \/ \E t \in Callers : LkNewGroupUnlock(t)
    \/ \E t \in Callers : LkGetGroup(t)
    \/ \E t \in Callers : LkGetGroupRLock(t)
    \/ \E t \in Callers, b \in BOOLEAN : LkGetGroupRUnlock(t, b)
    \/ \E t \in Callers, b \in BOOLEAN : LkServeHTTP(t, b)
    \/ \E t \in Callers : LkGet(t)
    \/ \E t \in Callers, b \in BOOLEAN : LkGetEntry(t, b)
    \/ \E t \in Callers : LkCacheGetLock(t)
    \/ \E t \in Callers, b \in BOOLEAN : LkCacheGetUnlock(t, b)
    \/ \E t \in Callers : LkDoLock(t)
    \/ \E t \in Callers : LkDoUnlock(t)
    \/ \E t \in Callers : LkDoWait(t)
    \/ \E t \in Callers : LkFnEnter(t)
    \/ \E t \in Callers : LkPickPeer(t)
    \/ \E t \in Callers : LkPickPeerLock(t)
    \/ \E t \in Callers, b \in BOOLEAN : LkPickPeerUnlock(t, b)
    \/ \E t \in Callers : LkFetchStart(t)
    \/ \E t \in Callers, b \in BOOLEAN : LkFetchEnd(t, b)
    \/ \E t \in Callers : LkGetterStart(t)
    \/ \E t \in Callers, b \in BOOLEAN : LkGetterEnd(t, b)
    \/ \E t \in Callers : LkCacheAddLock(t)
    \/ \E t \in Callers : LkCacheAddUnlock(t)
    \/ \E t \in Callers : LkFnReturn(t)
    \/ \E t \in Callers : LkDeleteLock(t)
    \/ \E t \in Callers : LkDeleteUnlock(t)
    \/ \E t \in Callers : LkSet(t)
    \/ \E t \in Callers : LkSetLock(t)
    \/ \E t \in Callers : LkSetUnlock(t)

SpecLocks == LockInit /\ [][LockNext]_vars

\* ------------------------------------------------------------ a cluster
\* Every node runs the same program: a group "scores" over the same getter,
\* with an HTTPPool registered as its picker, the pool Set with the list of
\* all nodes, and each node's self address its own entry of that list. The
\* rings are built from the same list by the same hash, so every node
\* resolves a key to the same owner, cown[k]. No store evicts.
MaxRoots == 2

\* room for every Get a client's Get can lead to
ReqIds == 1..(3 * MaxRoots)

GroupChars == <<"scores">>

CKeys == {Join(c) : c \in KeyChars}

\* the characters of a key or of the group's name
Chars(s) == CHOOSE c \in KeyChars \cup {GroupChars} : Join(c) = s

\* the data source behind every node's getter
CDB == ("k" :> "1") @@ ("a b" :> "2")

CGetter(k) ==
    IF k \in DOMAIN CDB THEN [bytes |-> CDB[k], err |-> ErrNil]
    ELSE [bytes |-> "", err |-> GetterErr(k)]

\* url.QueryEscape: a space becomes "+", and every character that is not a
\* letter, a digit or one of -_.~ becomes its %XX
QueryEscapeChar(c) ==
    IF c = " " THEN "+" ELSE IF c = "+" THEN "%2B" ELSE IF c = "/" THEN "%2F" ELSE c

QueryEscape(s) == [i \in 1..Len(s) |-> QueryEscapeChar(s[i])]

\* httpGetter.Get, lines 21-26: baseURL + QueryEscape(group) + "/" +
\* QueryEscape(key), baseURL being the peer's address + basePath
RequestPath(group, k) ==
    BasePathToks \o QueryEscape(Chars(group)) \o <<"/">> \o QueryEscape(Chars(k))

\* r.URL.Path: the path of the request with every %XX decoded; a "+" of a
\* path stands for itself
PathUnescapeChar(c) == IF c = "%2B" THEN "+" ELSE IF c = "%2F" THEN "/" ELSE c

URLPath(u) == [i \in 1..Len(u) |-> PathUnescapeChar(u[i])]

\* HTTPPool.PickPeer on node n, whose self is n
CPickPeer(n, k) ==
    LET peer == cown[k] IN
    IF peer # "" /\ peer # n THEN [peer |-> peer, ok |-> TRUE]
    ELSE [peer |-> "", ok |-> FALSE]

\* A call of Group.Get(k) on node n: by a client (parent 0), or by the
\* ServeHTTP that answers the peer fetch of request `parent`
NewReq(n, k, parent, root) ==
    [node |-> n, key |-> k, pc |-> "get", parent |-> parent, root |-> root,
     call |-> 0, val |-> "", err |-> ErrNil, fetches |-> 0]

ClusterInit ==
    /\ SFIdle
    /\ LruIdle
    /\ GroupIdle
    /\ RegIdle
    /\ RingIdle
    /\ PoolIdle
    /\ ServeIdle
    /\ LockIdle
    /\ cown \in [CKeys -> CNodes]
    /\ ccache = [n \in CNodes |-> <<>>]
    /\ ctab = [n \in CNodes |-> [k \in CKeys |-> 0]]
    /\ ccalls = <<>>
    /\ creqs = <<>>
    /\ nroots = 0

\* A client calls Get(k) on node n
CGet(n, k) ==
    /\ nroots < MaxRoots
    /\ nroots' = nroots + 1
    /\ creqs' = Append(creqs, NewReq(n, k, 0, Len(creqs) + 1))
    /\ UNCHANGED <<cown, ccache, ctab, ccalls>>
    /\ ClusterFrame

\* Group.Get, lines 49-61: reject the empty key, return a hit, else load
CCacheGet(i) ==
    /\ i <= Len(creqs)
    /\ creqs[i].pc = "get"
    /\ LET r == creqs[i] IN
       /\ creqs' = [creqs EXCEPT ![i] =
             IF KeyRequired(r.key) THEN [r EXCEPT !.pc = "ret", !.err = "key is required"]
             ELSE IF r.key \in DOMAIN ccache[r.node]
                  THEN [r EXCEPT !.pc = "ret", !.val = ccache[r.node][r.key]]
             ELSE [r EXCEPT !.pc = "load"]]
       /\ UNCHANGED <<cown, ccache, ctab, ccalls, nroots>>
    /\ ClusterFrame

\* Do, lines 22-40: join the call in flight for the key, or register one
CLookup(i) ==
    /\ i <= Len(creqs)
    /\ creqs[i].pc = "load"
    /\ LET r == creqs[i]
           c == ctab[r.node][r.key] IN
       /\ IF c # 0
          THEN /\ creqs' = [creqs EXCEPT ![i] = [r EXCEPT !.pc = "wait", !.call = c]]
               /\ UNCHANGED <<ctab, ccalls>>
          ELSE /\ ccalls' = Append(ccalls, [done |-> FALSE, val |-> "", err |-> ErrNil, by |-> i])
               /\ ctab' = [ctab EXCEPT ![r.node][r.key] = Len(ccalls) + 1]
               /\ creqs' = [creqs EXCEPT ![i] = [r EXCEPT !.pc = "fn", !.call = Len(ccalls) + 1]]
       /\ UNCHANGED <<cown, ccache, nroots>>
    /\ ClusterFrame

\* Do, lines 31-33: c.wg.Wait(); return c.val, c.err
CWait(i) ==
    /\ i <= Len(creqs)
    /\ creqs[i].pc = "wait"
    /\ LET r == creqs[i] IN
       /\ ccalls[r.call].done
       /\ creqs' = [creqs EXCEPT ![i] =
             [r EXCEPT !.pc = "ret", !.val = ccalls[r.call].val, !.err = ccalls[r.call].err]]
       /\ UNCHANGED <<cown, ccache, ctab, ccalls, nroots>>
    /\ ClusterFrame

\* load, lines 130-132, httpGetter.Get, lines 21-29, and the peer's ServeHTTP,
\* lines 37-64: with a remote owner, the request is sent and the owner's
\* ServeHTTP takes group and key from the path and calls Get; a request it
\* rejects, and no remote owner, lead to getLocally
CFn(i) ==
    /\ i <= Len(creqs)
    /\ creqs[i].pc = "fn"
    /\ LET r == creqs[i]
           picked == CPickPeer(r.node, r.key)
           upath == URLPath(RequestPath(Join(GroupChars), r.key))
           parts == SplitN2(TrimBase(upath))
           served == HasPrefix(upath, BasePathToks) /\ Len(parts) = 2
                     /\ parts[1] = Join(GroupChars) IN
       /\ (picked.ok /\ served) => Len(creqs) + 1 \in ReqIds
       /\ IF ~picked.ok
          THEN creqs' = [creqs EXCEPT ![i] = [r EXCEPT !.pc = "getter"]]
          ELSE IF ~served
          THEN creqs' = [creqs EXCEPT ![i] = [r EXCEPT !.pc = "getter"],
                                      ![r.root] = [@ EXCEPT !.fetches = @ + 1]]
          ELSE creqs' = Append([creqs EXCEPT ![i] = [r EXCEPT !.pc = "fetching"],
                                             ![r.root] = [@ EXCEPT !.fetches = @ + 1]],
                               NewReq(picked.peer, parts[2], i, r.root))
       /\ UNCHANGED <<cown, ccache, ctab, ccalls, nroots>>
    /\ ClusterFrame

\* ServeHTTP, lines 64-74, httpGetter.Get, lines 36-46, and load, lines
\* 132-136: the peer's Get has returned; its value is answered 200 and is
\* fn's result, its error is answered 500 and leads to getLocally
CFetchReturn(i) ==
    /\ i <= Len(creqs)
    /\ creqs[i].pc = "fetching"
    /\ LET r == creqs[i] IN
       /\ \E j \in 1..Len(creqs) :
             /\ creqs[j].parent = i
             /\ creqs[j].pc = "ret"
             /\ LET answer == IF creqs[j].err # ErrNil THEN HttpError(creqs[j].err, 500)
                            ELSE HttpOK(creqs[j].val)
                    got == HttpGet([neterr |-> FALSE, status |-> answer.status,
                                    readerr |-> FALSE, body |-> answer.body]) IN
                creqs' = [creqs EXCEPT ![i] =
                    IF got.err = ErrNil THEN [r EXCEPT !.pc = "finish", !.val = got.bytes]
                    ELSE [r EXCEPT !.pc = "getter"]]
       /\ UNCHANGED <<cown, ccache, ctab, ccalls, nroots>>
    /\ ClusterFrame

\* getLocally, lines 73-81: the getter's error, or its bytes, stored
CGetLocally(i) ==
    /\ i <= Len(creqs)
    /\ creqs[i].pc = "getter"
    /\ LET r == creqs[i]
           got == CGetter(r.key) IN
       /\ IF got.err # ErrNil
          THEN /\ creqs' = [creqs EXCEPT ![i] = [r EXCEPT !.pc = "finish", !.err = got.err]]
               /\ UNCHANGED ccache
          ELSE /\ creqs' = [creqs EXCEPT ![i] = [r EXCEPT !.pc = "finish", !.val = got.bytes]]
               /\ ccache' = [ccache EXCEPT ![r.node] = (r.key :> got.bytes) @@ @]
       /\ UNCHANGED <<cown, ctab, ccalls, nroots>>
    /\ ClusterFrame

\* Do, lines 43-50: store fn's result, c.wg.Done(), delete(g.m, key), return
CFinish(i) ==
    /\ i <= Len(creqs)
    /\ creqs[i].pc = "finish"
    /\ LET r == creqs[i] IN
       /\ ccalls' = [ccalls EXCEPT ![r.call] = [@ EXCEPT !.done = TRUE, !.val = r.val, !.err = r.err]]
       /\ ctab' = [ctab EXCEPT ![r.node][r.key] = 0]
       /\ creqs' = [creqs EXCEPT ![i] = [r EXCEPT !.pc = "ret"]]
       /\ UNCHANGED <<cown, ccache, nroots>>
    /\ ClusterFrame

ClusterNext ==
    \/ \E n \in CNodes, k \in CKeys : CGet(n, k)
    \/ \E i \in ReqIds : CCacheGet(i)
    \/ \E i \in ReqIds : CLookup(i)
    \/ \E i \in ReqIds : CWait(i)
    \/ \E i \in ReqIds : CFn(i)
    \/ \E i \in ReqIds : CFetchReturn(i)
    \/ \E i \in ReqIds : CGetLocally(i)
    \/ \E i \in ReqIds : CFinish(i)

SpecCluster == ClusterInit /\ [][ClusterNext]_vars
\* ------------------------------------------------------ claims on SpecSF

InDo(p) == pc[p] \in {"do_lock", "do_fn", "do_delete", "do_wait"}
PastLookup(p) == pc[p] \in {"do_fn", "do_delete", "do_wait", "ret"}
Executors == {p \in Callers : ~found[p]}

\* Every goroutine made exactly one Do call, all with the same key, all of them
\* were inside Do at the same moment, and all have returned.
AllReturnedOnce ==
    /\ ndo = NCallers
    /\ overlap
    /\ \A p \in Callers : pc[p] = "ret"
    /\ \A p, q \in Callers : key[p] = key[q]

\* C1 as stated: N concurrent Do calls with one key increment the counter by
\* exactly 1 and all return the identical (value, error).
C1_AsStated ==
    AllReturnedOnce =>
        /\ counter = 1
        /\ \A p, q \in Callers : ret[p] = ret[q]

\* C1 amended: N concurrent Do calls with one key increment the counter once per
\* call that found no entry in the table (at least once, at most N times); a
\* call that found an entry returns what the owner of that entry returned; and
\* when only one call found no entry the counter is 1 and all results agree.
C1_CounterPerExecutor ==
    AllReturnedOnce =>
        /\ counter = Cardinality(Executors)
        /\ counter >= 1 /\ counter <= NCallers
        /\ \A p \in Callers : found[p] =>
              /\ calls[cref[p]].owner \in Executors
              /\ ret[p] = ret[calls[cref[p]].owner]
        /\ \A p, q \in Callers : cref[p] = cref[q] => ret[p] = ret[q]
        /\ (Cardinality(Executors) = 1 =>
              /\ counter = 1
              /\ \A p, q \in Callers : ret[p] = ret[q])

C1_Witness ==
    /\ AllReturnedOnce
    /\ counter = 1
    /\ \E p \in Callers : found[p]

\* C2: at most one execution of fn is in progress per key, and a caller that
\* found an in-flight call returns the (val, err) that the one execution of fn
\* by that call's owner stored, having run no fn itself.
C2_OneFlightPerKey ==
    /\ \A k \in DOMAIN m : Cardinality({p \in DOMAIN pc : pc[p] = "do_fn" /\ key[p] = k}) <= 1
    /\ \A p \in DOMAIN pc : (pc[p] = "ret" /\ found[p]) =>
          /\ calls[cref[p]].done
          /\ calls[cref[p]].runs = 1
          /\ calls[cref[p]].owner # p
          /\ calls[cref[p]].key = key[p]
          /\ ret[p] = [val |-> calls[cref[p]].val, err |-> calls[cref[p]].err]
    /\ \A c \in 1..Len(calls) : calls[c].runs = (IF calls[c].done THEN 1 ELSE 0)

C2_Witness ==
    \E p, q \in Callers :
        /\ p # q
        /\ pc[p] = "ret" /\ found[p]
        /\ pc[q] = "ret" /\ ~found[q] /\ cref[p] = cref[q]
        /\ ret[p] = ret[q] /\ ret[p].err = "boom"

\* C3 as stated: once a call for key k is resolved, every Do(k) that begins
\* afterwards starts a fresh call and executes its own fn.
C3_AsStated ==
    \A p \in Callers : (PastLookup(p) /\ seen[p].resolved) =>
        /\ ~found[p]
        /\ cref[p] > seen[p].ncalls

\* C3 amended: no Do ever joins a call that was already removed from the table
\* (so a Do that begins after the removal never returns that call's result),
\* a Do that finds no entry runs its own fn on a call allocated after it began,
\* and the table only holds calls that are not removed.
C3_FreshAfterRemoval ==
    /\ \A p \in Callers : PastLookup(p) =>
          /\ ~seen[p].stale
          /\ (~found[p] => calls[cref[p]].owner = p /\ cref[p] > seen[p].ncalls)
    /\ \A k \in SFKeys : m[k] # 0 => (~calls[m[k]].removed /\ calls[m[k]].key = k)

C3_Witness ==
    \E p \in Callers :
        /\ pc[p] = "ret"
        /\ seen[p].removed
        /\ ~found[p]
        /\ cref[p] > seen[p].ncalls

\* C20: under fair scheduling, with every fn returning, every Do call - the
\* executor's and every waiter's - eventually returns, and whenever no Do is
\* in progress the table holds no entry.
C20_EveryDoReturns ==
    /\ \A p \in Callers : InDo(p) ~> (pc[p] = "ret")
    /\ [](( \A p \in Callers : ~InDo(p)) => \A k \in SFKeys : m[k] = 0)

\* An executor and a caller that waited on its call have both returned, and
\* the table is empty.
C20_Witness ==
    \E p, q \in Callers :
        /\ p # q /\ pc[p] = "ret" /\ pc[q] = "ret"
        /\ found[q] /\ cref[q] = cref[p] /\ calls[cref[p]].owner = p
        /\ \A k \in SFKeys : m[k] = 0

\* ----------------------------------------------------- claims on SpecLRU

LastOp == hist[Len(hist)]
Returned(ops) == hist # <<>> /\ LastOp.op \in ops /\ ~hung

\* C5: the tracked nbytes is the sum of len(key) + value.Len() over the resident
\* entries, and the index map and the recency list hold the same keys (each key
\* once in the list).
C5_BytesAccounted ==
    /\ nbytes = SumSizes(ll)
    /\ cache = KeysOf(ll)
    /\ Cardinality(cache) = Len(ll)

\* an Add of a resident key with a value of another length, then an eviction
C5_Witness ==
    /\ Len(hist) = 2
    /\ hist[1].op = "Add" /\ hist[1].key = "k1" /\ hist[1].value = "v23"
    /\ hist[2].op = "Add" /\ hist[2].key = "k1" /\ hist[2].value = "v1"
    /\ Len(ll) = 2 /\ nbytes = 9

\* C6 as stated: with maxBytes # 0, nbytes <= maxBytes after every Add and
\* RemoveOldest that returns; with maxBytes = 0 no Add evicts.
C6_AsStated ==
    /\ (maxBytes # 0 /\ Returned({"Add", "RemoveOldest"})) => nbytes <= maxBytes
    /\ (maxBytes = 0 /\ Returned({"Add"})) => evicted = <<>>

\* C6 amended: with maxBytes > 0, nbytes <= maxBytes in every state and every
\* Add returns; with maxBytes = 0 no Add evicts; with maxBytes < 0 no Add returns.
C6_BoundedWhenPositive ==
    /\ maxBytes > 0 => (nbytes <= maxBytes /\ ~hung)
    /\ (maxBytes = 0 /\ Returned({"Add"})) => (evicted = <<>> /\ LastOp.key \in cache)
    /\ (maxBytes < 0 /\ hist # <<>> /\ LastOp.op = "Add") => hung

\* an Add that had to evict two entries to get back under a positive maxBytes
C6_Witness ==
    /\ maxBytes = 8
    /\ Returned({"Add"})
    /\ Len(evicted) = 2
    /\ nbytes = 5

\* C7: the entries an operation evicts are, in the order of their eviction, the
\* least recently touched (by Add or by a Get hit) of the entries resident at
\* that moment.
C7_EvictsLeastRecent ==
    /\ Len(evicted) <= Len(pre)
    /\ \A i \in 1..Len(evicted) : evicted[i].key = pre[i]
    /\ \A i \in 1..Len(order) : order[i] = ll[Len(ll) + 1 - i].key
    /\ Len(order) = Len(ll)

\* room for two entries; k1 and k2 resident, Get k1, Add k3: k2 is evicted
C7_Witness ==
    /\ maxBytes = 8
    /\ Len(hist) = 2
    /\ hist[1] = [op |-> "Get", key |-> "k1", value |-> "v1", ok |-> TRUE]
    /\ hist[2] = [op |-> "Add", key |-> "k3", value |-> "v1", ok |-> TRUE]
    /\ evicted = <<[key |-> "k2", value |-> "v1"]>>
    /\ cache = {"k1", "k3"}
    /\ pre = <<"k2", "k1", "k3">>

\* the last operation was an Add of an entry larger than a non-zero maxBytes
Oversized ==
    /\ hist # <<>> /\ LastOp.op = "Add"
    /\ maxBytes # 0
    /\ Len(LastOp.key) + Len(LastOp.value) > maxBytes

\* C19: an Add of an entry larger than maxBytes # 0 inserts the entry and
\* evicts it in the same call: afterwards the key is not resident, the store
\* is empty (Len() = 0, nbytes = 0), and the eviction callback ran once for
\* every entry that was resident, least recent first, the new entry last.
C19_OversizedAddEmptiesStore ==
    Oversized =>
        /\ LastOp.key \notin cache
        /\ ~GetOp(LruState, LastOp.key).ok
        /\ LruLen = 0 /\ nbytes = 0
        /\ Len(evicted) = Len(pre)
        /\ \A i \in 1..Len(evicted) : evicted[i].key = pre[i]
        /\ evicted[Len(evicted)] = [key |-> LastOp.key, value |-> LastOp.value]
        /\ maxBytes > 0 => ~hung

\* maxBytes = 4 holds one 4-byte entry; the Add of a 5-byte entry evicts the
\* resident entry and then the new one
C19_Witness ==
    /\ maxBytes = 4
    /\ Oversized /\ ~hung
    /\ Len(hist) = 2
    /\ hist[1] = [op |-> "Add", key |-> "k1", value |-> "v1", ok |-> TRUE]
    /\ hist[2] = [op |-> "Add", key |-> "k2", value |-> "v23", ok |-> TRUE]
    /\ evicted = <<[key |-> "k1", value |-> "v1"], [key |-> "k2", value |-> "v23"]>>
    /\ ll = <<>>

\* --------------------------------------------------- claims on SpecGroup

StoreKV == {<<ll[i].key, ll[i].value>> : i \in 1..Len(ll)}
Loaded(p) == pc[p] = "ret" /\ path[p] = "load"

\* Every goroutine made exactly one Get, all with one key, every one missed the
\* local store, all stood between the miss and the coalescer at the same
\* moment, and all have returned.
AllMissedOnce ==
    /\ nget = NCallers
    /\ overlap
    /\ \A p \in Callers : Loaded(p)
    /\ \A p, q \in Callers : key[p] = key[q]

\* C4: concurrent Get(k) calls that all miss the local store execute the load
\* sequence once: the getter is invoked at most once for k across them.
C4_AsStated ==
    AllMissedOnce => \A p \in Callers : loadCount[key[p]] <= 1

\* C8 as stated: with no peers, sequential Get calls of a key the getter knows
\* invoke the getter exactly once; every later Get is a hit with the same value.
C8_AsStated ==
    (~concur /\ gpeers = "nil") =>
        \A p \in Callers : (pc[p] = "ret" /\ key[p] \in DOMAIN DB) =>
            /\ loadCount[key[p]] = 1
            /\ gret[p] = [value |-> DB[key[p]], err |-> ErrNil]

\* C8 amended: the same, as long as the local store has evicted no entry; a
\* hit enters no coalescer call, and with no peers no peer is ever asked.
C8_OnceWhileResident ==
    (~concur /\ gpeers = "nil" /\ ~everEvicted) =>
        /\ \A p \in Callers : (pc[p] = "ret" /\ key[p] \in DOMAIN DB) =>
              /\ loadCount[key[p]] = 1
              /\ gret[p] = [value |-> DB[key[p]], err |-> ErrNil]
              /\ (path[p] = "hit" => cref[p] = 0 /\ key[p] \in cache)
        /\ \A k \in DOMAIN DB : loadCount[k] =
              Cardinality({c \in 1..Len(calls) : calls[c].key = k /\ calls[c].ngetter = 1})
        /\ \A k \in DOMAIN DB : loadCount[k] <= 1
        /\ \A c \in 1..Len(calls) : calls[c].nfetch = 0

C8_Witness ==
    /\ ~concur /\ gpeers = "nil" /\ ~everEvicted
    /\ nget = 2
    /\ loadCount["Tom"] = 1
    /\ \E p \in Callers : pc[p] = "ret" /\ path[p] = "hit" /\ key[p] = "Tom"

\* C9: Get returns an error exactly when the key is empty ("key is required",
\* with nothing else touched) or when the getter failed and no peer delivered
\* (the getter's error); a Get that returns an error has not changed the local
\* store, and the store's contents change only in a populateCache that follows
\* a successful getter call.
C9_ErrorCases ==
    \A p \in Callers : pc[p] = "ret" =>
        /\ (gret[p].err # ErrNil) <=>
              (key[p] = "" \/ (cref[p] # 0 /\ calls[cref[p]].ngetter = 1
                               /\ ~calls[cref[p]].peerok
                               /\ Getter(key[p]).err # ErrNil))
        /\ key[p] = "" => (gret[p].err = "key is required" /\ path[p] = "reject" /\ cref[p] = 0)
        /\ (key[p] # "" /\ gret[p].err # ErrNil) => gret[p].err = GetterErr(key[p])
        /\ gret[p].err # ErrNil => (~touched[p] /\ gret[p].value = "")

C9_RejectTouchesNothing ==
    \A p \in Callers :
        (/\ nget' = nget + 1
         /\ key'[p] = "" /\ pc'[p] = "ret"
         /\ \A q \in Callers \ {p} : pc'[q] = pc[q] /\ key'[q] = key[q] /\ gret'[q] = gret[q])
        => UNCHANGED <<m, calls, ndo, lruvars, lruNil, loadCount, gpeers, ring>>

C9_StoreChangesOnlyOnSuccess ==
    StoreKV' # StoreKV =>
        \/ panicked'
        \/ \E p \in Callers :
              /\ pc[p] = "fn_add" /\ pc'[p] = "do_delete"
              /\ Getter(key[p]).err = ErrNil
              /\ calls'[cref[p]].err = ErrNil
              /\ touched'[p]

C9_ErrorsAndStore ==
    /\ []C9_ErrorCases
    /\ [][C9_RejectTouchesNothing]_vars
    /\ [][C9_StoreChangesOnlyOnSuccess]_vars

\* Tom is cached, then a Get of an unknown key fails: Tom stays cached
C9_Witness ==
    \E p, q \in Callers :
        /\ p # q
        /\ pc[p] = "ret" /\ key[p] = "unknown" /\ gret[p].err = "unknown not exist"
        /\ pc[q] = "ret" /\ key[q] = "Tom" /\ gret[q].err = ErrNil
        /\ <<"Tom", "630">> \in StoreKV
        /\ gpeers = "pool"

\* C10: one execution of load makes at most one peer fetch; when the fetch
\* fails the getter is invoked exactly once and the caller gets the getter's
\* value or the getter's error, never the peer's; when the fetch succeeds the
\* getter is not invoked.
C10_PeerFailureFallsBack ==
    /\ \A c \in 1..Len(calls) :
          /\ calls[c].nfetch <= 1 /\ calls[c].ngetter <= 1
          /\ calls[c].peerok => (calls[c].done /\ calls[c].nfetch = 1)
          /\ (calls[c].done /\ calls[c].peerok) =>
                (calls[c].ngetter = 0 /\ calls[c].err = ErrNil)
          /\ (calls[c].done /\ ~calls[c].peerok) =>
                /\ calls[c].ngetter = 1
                /\ calls[c].val = <<Getter(calls[c].key).bytes>>
                /\ calls[c].err = Getter(calls[c].key).err
    /\ \A p \in Callers : Loaded(p) =>
          gret[p] = LoadRet([val |-> calls[cref[p]].val, err |-> calls[cref[p]].err])
    /\ \A p \in Callers : pc[p] = "fn_add" => calls[cref[p]].ngetter = 1
    /\ \A p \in Callers : pc[p] \in {"fn_fetch", "fn_local"} => calls[cref[p]].ngetter = 0

\* a load whose peer fetch failed and whose getter then delivered
C10_Witness ==
    \E p \in Callers :
        /\ Loaded(p) /\ ~found[p]
        /\ calls[cref[p]].nfetch = 1 /\ ~calls[cref[p]].peerok
        /\ calls[cref[p]].ngetter = 1
        /\ gret[p] = [value |-> "630", err |-> ErrNil]

\* C11: a Get served by a successful peer fetch has not changed the local
\* store, and every resident entry of the local store holds what the group's
\* own getter returns for its key (entries come from populateCache only).
ServedByPeer(p) ==
    /\ pc[p] = "ret" /\ path[p] = "load" /\ cref[p] # 0
    /\ calls[cref[p]].peerok

C11_PeerFetchNotCached ==
    /\ \A p \in Callers : ServedByPeer(p) /\ calls[cref[p]].owner = p => ~touched[p]
    /\ \A p \in Callers : pc[p] = "do_delete" /\ calls[cref[p]].peerok => ~touched[p]
    /\ \A i \in 1..Len(ll) :
          /\ Getter(ll[i].key).err = ErrNil
          /\ ll[i].value = Getter(ll[i].key).bytes

\* A Get was served by a peer while the local store holds a getter-made entry.
C11_Witness ==
    \E p \in Callers :
        /\ ServedByPeer(p) /\ calls[cref[p]].owner = p
        /\ gret[p] = [value |-> "p630", err |-> ErrNil]
        /\ Len(ll) = 1

\* ------------------------------------------------ claims on SpecRegistry

\* C12: at most one RegisterPeers call sets a group's picker, also when the
\* calls are concurrent; every other call panics.
C12_AsStated ==
    \A g \in 1..Len(nset) : nset[g] <= 1

\* C13: once NewGroup(name, ...) has returned g, GetGroup(name) returns that
\* g in every later state; a name never created resolves to nil.
C13_AsStated ==
    /\ \A n \in GNames : firstOf[n] # 0 => GetGroupOp(n) = firstOf[n]
    /\ \A t \in Callers : rgot[t].g = rgot[t].first

\* ---------------------------------------------------- claims on SpecRing

IsSorted(ks) == \A i \in 1..(Len(ks) - 1) : ks[i] <= ks[i + 1]
VirtualHashes == {mkeys[i] : i \in 1..Len(mkeys)}
MinOf(S) == CHOOSE x \in S : \A y \in S : x <= y

\* the node of the smallest virtual hash >= hash(k), else of the smallest one
Successor(k) ==
    LET ge == {v \in VirtualHashes : v >= mhash[k]} IN
    mhashMap[IF ge # {} THEN MinOf(ge) ELSE MinOf(VirtualHashes)]

\* C16: after any sequence of Add calls m.keys is sorted ascending; Get(k)
\* returns the node of the smallest virtual hash >= hash(k), wrapping around
\* to the smallest virtual hash, and "" on an empty ring.
C16_SortedAndSuccessor ==
    /\ IsSorted(mkeys)
    /\ \A k \in RKeys :
         /\ MapGet(MapState, k) = IF mkeys = <<>> THEN "" ELSE Successor(k)
         /\ lastGet[k] # "none" => lastGet[k] = MapGet(MapState, k)

\* Both keys were looked up on a ring of two Adds: one wraps around, the
\* other finds a virtual hash at or above its own.
C16_Witness ==
    /\ nadd = 2 /\ Len(mkeys) >= 3
    /\ lastGet["x"] # "none" /\ lastGet["y"] # "none"
    /\ \A v \in VirtualHashes : v < mhash["x"]
    /\ \E v \in VirtualHashes : v >= mhash["y"]
    /\ \E i \in 1..(Len(mkeys) - 1) : mkeys[i] < mkeys[i + 1]

\* C17: on an unchanged ring Get(k) keeps returning the same node, and after
\* Add(n) of one new node every key whose owner changed is owned by n.
C17_OnlyMovesToNewNode ==
    /\ \A k \in RKeys : lastGet[k] # "none" => lastGet[k] = MapGet(MapState, k)
    /\ Len(added) = 1 /\ added[1] \notin before =>
         \A k \in RKeys :
            MapGet(MapState, k) # prevOwner[k] => MapGet(MapState, k) = added[1]

\* A new node joined a ring of two nodes; one key moved to it, the other
\* stayed with its owner.
C17_Witness ==
    /\ Len(added) = 1 /\ added[1] \notin before /\ Cardinality(before) = 2
    /\ MapGet(MapState, "x") = added[1] /\ prevOwner["x"] \in before
    /\ MapGet(MapState, "y") = prevOwner["y"] /\ prevOwner["y"] \in before
    /\ lastGet["x"] = added[1]

\* ---------------------------------------------------- claims on SpecPool

\* the ring of exactly the peers the most recent Set was called with
RingOfLastSet == MapAdd(MapNew, lastSet, mhash)

\* C15: PickPeer(key) returns (handle, true) only when the ring built from
\* the most recent Set's peer list resolves key to a peer other than self,
\* and the handle is that peer's; when the ring resolves to "" or to self, or
\* before any Set, it returns (nil, false).
C15_AsStated ==
    /\ poolPanic = ""
    /\ pick # NoPick =>
         LET peer == MapGet(RingOfLastSet, pick.key) IN
         IF peer # "" /\ peer # Self
         THEN pick.ok /\ pick.handle = peer \o BasePath
         ELSE ~pick.ok /\ pick.handle = ""

\* --------------------------------------------------- claims on SpecServe

\* the part of a request path after basePath, and its first "/"
RestOf(p) == SubSeq(req[p], Len(BasePathToks) + 1, Len(req[p]))
StartsWithBase(s) ==
    /\ Len(s) >= Len(BasePathToks)
    /\ \A i \in 1..Len(BasePathToks) : s[i] = BasePathToks[i]
HasSlash(s) == \E i \in 1..Len(s) : s[i] = "/"
FirstSlash(s) == CHOOSE i \in 1..Len(s) : s[i] = "/" /\ \A j \in 1..(i - 1) : s[j] # "/"
NameOf(p) == Join(SubSeq(RestOf(p), 1, FirstSlash(RestOf(p)) - 1))
KeyOf(p) == Join(SubSeq(RestOf(p), FirstSlash(RestOf(p)) + 1, Len(RestOf(p))))
Registered(n) == \E g \in 1..Len(gheap) : gheap[g].name = n

\* p's ServeHTTP has ended: it wrote an answer or it panicked
Answered(p) == resp[p] # NoResp

\* C14: for a path that starts with basePath ServeHTTP answers 400 "bad
\* request" when the rest has no "/"; else 404 "no such group: <name>" when no
\* group of that name is registered; else 500 with the error text when
\* group.Get(key) fails; else 200 with the value's bytes. A path that does not
\* start with basePath panics and nothing is written. Nothing is written
\* before group.Get has returned. (Stated of a running process: a second
\* RegisterPeers ends it, and its goroutines with it.)
C14_ServeAnswers ==
    panicked \/ \A p \in Callers :
        /\ serving[p] => resp[p] = NoResp
        /\ Answered(p) =>
            IF ~StartsWithBase(req[p])
            THEN resp[p].panic /\ resp[p].status = 0 /\ resp[p].body = ""
            ELSE IF ~HasSlash(RestOf(p))
            THEN resp[p] = [status |-> 400, body |-> "bad request\n", panic |-> FALSE]
            ELSE IF ~Registered(NameOf(p))
            THEN resp[p] = [status |-> 404, panic |-> FALSE,
                            body |-> "no such group: " \o NameOf(p) \o "\n"]
            ELSE /\ key[p] = KeyOf(p)
                 /\ path[p] # "none"
                 /\ IF gret[p].err # ErrNil
                    THEN resp[p] = [status |-> 500, panic |-> FALSE,
                                    body |-> gret[p].err \o "\n"]
                    ELSE resp[p] = [status |-> 200, panic |-> FALSE,
                                    body |-> gret[p].value]

\* One request was answered 200 with Tom's value, another one, whose key
\* holds a second "/", 500 with the getter's error.
C14_Witness ==
    \E p, q \in Callers :
        /\ resp[p] = [status |-> 200, body |-> "630", panic |-> FALSE]
        /\ req[q] = BasePathToks \o <<"scores", "/", "Tom", "/", "x">>
        /\ resp[q] = [status |-> 500, body |-> "Tom/x not exist\n", panic |-> FALSE]

\* --------------------------------------------------- claims on SpecLocks

\* C18 (as stated): no goroutine holds two of the locks at once, and none
\* holds any lock while the coalesced function, the getter callback or a
\* peer fetch is executing. The coalesced function itself calls PickPeer and
\* cache.add, which take p.mu and c.mu.
C18_AsStated ==
    \A t \in Callers :
        /\ Cardinality(Held(t)) <= 1
        /\ lkcb[t] # {} => Held(t) = {}

\* C18: in every interleaving of NewGroup, GetGroup, Group.Get, Set, PickPeer
\* and ServeHTTP no goroutine holds two of the four locks at once; none holds
\* any lock while the getter callback or a peer fetch is executing; and a
\* goroutine inside the coalesced function holds neither the registry lock
\* nor the coalescer's table mutex: the only locks it takes there are p.mu,
\* inside PickPeer, and c.mu, inside cache.add.
C18_LocksNeverNested ==
    \A t \in Callers :
        /\ Cardinality(Held(t)) <= 1
        /\ ("getter" \in lkcb[t] \/ "fetch" \in lkcb[t]) => Held(t) = {}
        /\ "fn" \in lkcb[t] => Held(t) \subseteq {"p.mu", "c.mu"}

\* One goroutine is inside the getter callback of its coalesced function
\* while another holds the table mutex and has found that call's entry.
C18_Witness ==
    \E t \in Callers, u \in Callers :
        /\ t # u
        /\ lkcb[t] = {"fn", "getter"} /\ lkpc[t] = "getting"
        /\ lkpc[u] = "do_locked" /\ Held(u) = {"g.mu"}
        /\ lktab = lkref[t]

\* -------------------------------------------------- claims on SpecCluster

\* request a is the one whose peer fetch, directly or through further
\* fetches, request i serves
RECURSIVE IsAncestor(_, _)
IsAncestor(a, i) ==
    /\ creqs[i].parent # 0
    /\ (creqs[i].parent = a \/ IsAncestor(a, creqs[i].parent))

\* C21 (as stated): with every pool Set with the same list and every node in
\* it, a client's Get leads to at most one peer fetch in total: the peer that
\* serves it sources locally and fetches from nobody, and no Get waits for
\* the coalesced call of a request it was made for. A key with a space
\* reaches the owner as another key (the "+" QueryEscape writes for the space
\* is a "+" in the path), which the owner may resolve to another node.
C21_AsStated ==
    \A i \in 1..Len(creqs) :
        /\ creqs[i].parent = 0 => creqs[i].fetches <= 1
        /\ creqs[i].parent # 0 => creqs[i].pc # "fetching"
        /\ creqs[i].pc = "wait" => ~IsAncestor(ccalls[creqs[i].call].by, i)

====
